---- MODULE Spec2Model ----
(***************************************************************************)
(* A model of the BotHub WhatsApp router of src/server.js: the /whatsapp  *)
(* handler, the flow registry, the per-flow state machines and the three  *)
(* facades (session store, generative content, message delivery).         *)
(*                                                                         *)
(* JavaScript values are encoded as follows.                               *)
(*   - a message text is a sequence of one-character strings, so that     *)
(*     trim() and toLowerCase() are computed and not assumed;              *)
(*   - identifiers of the program (bot types, states) are TLA+ strings;    *)
(*   - a field holding "text or null" is <<>> for null and <<t>> for t;    *)
(*   - an object literal {} is a function on the set of its keys;          *)
(*   - a reply is a sequence of parts, each a record with a kind k.        *)
(***************************************************************************)
EXTENDS Integers, Sequences, FiniteSets, TLC

(***************************************************************************)
(* Text: String.prototype.trim and String.prototype.toLowerCase            *)
(***************************************************************************)
Upper == <<"A","B","C","D","E","F","G","H","I","J","K","L","M",
           "N","O","P","Q","R","S","T","U","V","W","X","Y","Z">>
Lower == <<"a","b","c","d","e","f","g","h","i","j","k","l","m",
           "n","o","p","q","r","s","t","u","v","w","x","y","z">>

WhiteSpace == {" ", "\t", "\n"}

LowerChar(c) ==
    IF \E i \in 1..26 : Upper[i] = c
    THEN Lower[CHOOSE i \in 1..26 : Upper[i] = c]
    ELSE c

toLowerCase(s) == [i \in 1..Len(s) |-> LowerChar(s[i])]

RECURSIVE trimStart(_)
trimStart(s) ==
    IF s # <<>> /\ Head(s) \in WhiteSpace THEN trimStart(Tail(s)) ELSE s

RECURSIVE trimEnd(_)
trimEnd(s) ==
    IF s # <<>> /\ s[Len(s)] \in WhiteSpace
    THEN trimEnd(SubSeq(s, 1, Len(s) - 1))
    ELSE s

trim(s) == trimEnd(trimStart(s))

\* the index of the first occurrence of the text p in s, 0 when there is none
IndexOf(s, p) ==
    LET hits == {i \in 1..(Len(s) - Len(p) + 1) : SubSeq(s, i, i + Len(p) - 1) = p}
    IN  IF hits = {} THEN 0 ELSE CHOOSE i \in hits : \A j \in hits : i <= j

includes(s, p) == IndexOf(s, p) # 0

\* String.prototype.charCodeAt(0) - 97 for the characters the model sends;
\* the empty text gives NaN, which equals no index
NaN == -1000

CharCodes ==
    [c \in {Lower[i] : i \in 1..26} |-> 96 + CHOOSE i \in 1..26 : Lower[i] = c]

\* a code that exists only for a text of one character
charCodeAt0_wholeText(s) ==
    IF Len(s) # 1 THEN NaN
    ELSE IF s[1] \in DOMAIN CharCodes THEN CharCodes[s[1]]
    ELSE 32

charCodeAt0(s) ==
    IF s = <<>> THEN NaN
    ELSE IF s[1] \in DOMAIN CharCodes THEN CharCodes[s[1]]
    ELSE IF s[1] \in {"0","1","2","3","4","5","6","7","8","9"}
         THEN 48 + (CHOOSE d \in 0..9 : <<"0","1","2","3","4","5","6","7","8","9">>[d + 1] = s[1])
    ELSE IF s[1] = "_" THEN 95
    ELSE 32

(***************************************************************************)
(* Message texts used by the program                                       *)
(***************************************************************************)
T_restart        == <<"r","e","s","t","a","r","t">>
T_main_menu      == <<"m","a","i","n"," ","m","e","n","u">>
T_quiz           == <<"q","u","i","z">>
T_flashcards     == <<"f","l","a","s","h","c","a","r","d","s">>
T_change_exam    == <<"c","h","a","n","g","e"," ","e","x","a","m">>
T_change_subject == <<"c","h","a","n","g","e"," ","s","u","b","j","e","c","t">>
T_summary        == <<"s","u","m","m","a","r","y">>
T_yes            == <<"y","e","s">>
T_start_over     == <<"s","t","a","r","t"," ","o","v","e","r">>
T_add_bill       == <<"a","d","d"," ","b","i","l","l">>
T_tips           == <<"t","i","p","s">>
T_in             == <<" ","i","n"," ">>
T_constructor    == <<"c","o","n","s","t","r","u","c","t","o","r">>
T_proto          == <<"_","_","p","r","o","t","o","_","_">>

K1  == <<"1">>
K2  == <<"2">>
K3  == <<"3">>
K4  == <<"4">>
K5  == <<"5">>
K6  == <<"6">>
K7  == <<"7">>
K8  == <<"8">>
K9  == <<"9">>
K10 == <<"1","0">>
K11 == <<"1","1">>
K12 == <<"1","2">>
\* the code the menu table keeps commented out for the translator
K13 == <<"1","3">>

(***************************************************************************)
(* JavaScript values                                                       *)
(***************************************************************************)
Null      == "null"
Undefined == "undefined"

\* What a property read on an object literal yields for a key the literal
\* does not define itself but every object inherits: for the lower-case
\* texts a message can be, these are "constructor" and "__proto__".
ObjectCtor  == "function Object() { [native code] }"
ObjectProto == "[object Object]"

\* obj[key] for an object literal obj and a message text key
Get(obj, key) ==
    IF key \in DOMAIN obj THEN obj[key]
    ELSE IF key = T_constructor THEN ObjectCtor
    ELSE IF key = T_proto THEN ObjectProto
    ELSE Undefined

\* truthiness of a value that is an identifier, null or undefined
Truthy(v) == v \notin {Undefined, Null}

EmptyObject == [k \in {} |-> <<>>]

\* an assignment that is lost
Put_ignores(obj, key, v) == obj

\* obj.key = v
Put(obj, key, v) == [k \in (DOMAIN obj) \cup {key} |-> IF k = key THEN v ELSE obj[k]]

\* obj.key, undefined when the key is absent
Field(obj, key) == IF key \in DOMAIN obj THEN obj[key] ELSE Undefined

(***************************************************************************)
(* Bot hub configuration                                                   *)
(***************************************************************************)
REVISION_BOT          == "exam_revision_bot"
PDF_SUMMARIZER_BOT    == "pdf_summarizer_bot"
TRANSLATOR_BOT        == "translator_bot"
RESUME_GENERATOR_BOT  == "resume_generator_bot"
LEGAL_SIMPLIFIER_BOT  == "legal_document_simplifier_bot"
NEWS_DIGEST_BOT       == "daily_news_digest_bot"
RECIPE_COACH_BOT      == "whatsapp_recipe_coach_bot"
CAREER_COUNSELOR_BOT  == "ai_career_counselor_bot"
YOUTUBE_SCRIPT_BOT    == "youtube_script_thumbnail_bot"
LOCAL_SERVICES_BOT    == "local_services_finder_bot"
FINANCE_REMINDER_BOT  == "personal_finance_bill_reminder_bot"
INSTAGRAM_CAPTION_BOT == "instagram_caption_hashtag_generator_bot"
ORDER_TRACKING_BOT    == "ai_order_tracking_complaint_assistant"
MENTAL_HEALTH_BOT     == "mental_health_journal_therapy_companion"

BOT_TYPES ==
    {REVISION_BOT, PDF_SUMMARIZER_BOT, TRANSLATOR_BOT, RESUME_GENERATOR_BOT,
     LEGAL_SIMPLIFIER_BOT, NEWS_DIGEST_BOT, RECIPE_COACH_BOT, CAREER_COUNSELOR_BOT,
     YOUTUBE_SCRIPT_BOT, LOCAL_SERVICES_BOT, FINANCE_REMINDER_BOT,
     INSTAGRAM_CAPTION_BOT, ORDER_TRACKING_BOT, MENTAL_HEALTH_BOT}

\* the menu table with its commented-out thirteenth entry restored
MAIN_MENU_OPTIONS_withTranslator ==
    (K1 :> REVISION_BOT) @@ (K2 :> RESUME_GENERATOR_BOT) @@
    (K3 :> LEGAL_SIMPLIFIER_BOT) @@ (K4 :> NEWS_DIGEST_BOT) @@
    (K5 :> RECIPE_COACH_BOT) @@ (K6 :> CAREER_COUNSELOR_BOT) @@
    (K7 :> YOUTUBE_SCRIPT_BOT) @@ (K8 :> LOCAL_SERVICES_BOT) @@
    (K9 :> FINANCE_REMINDER_BOT) @@ (K10 :> INSTAGRAM_CAPTION_BOT) @@
    (K11 :> ORDER_TRACKING_BOT) @@ (K12 :> MENTAL_HEALTH_BOT) @@
    (K13 :> TRANSLATOR_BOT)

MAIN_MENU_OPTIONS ==
    (K1 :> REVISION_BOT) @@ (K2 :> RESUME_GENERATOR_BOT) @@
    (K3 :> LEGAL_SIMPLIFIER_BOT) @@ (K4 :> NEWS_DIGEST_BOT) @@
    (K5 :> RECIPE_COACH_BOT) @@ (K6 :> CAREER_COUNSELOR_BOT) @@
    (K7 :> YOUTUBE_SCRIPT_BOT) @@ (K8 :> LOCAL_SERVICES_BOT) @@
    (K9 :> FINANCE_REMINDER_BOT) @@ (K10 :> INSTAGRAM_CAPTION_BOT) @@
    (K11 :> ORDER_TRACKING_BOT) @@ (K12 :> MENTAL_HEALTH_BOT)

REVISION_BOT_STATES ==
    [AWAITING_EXAM_SELECTION    |-> "revision_awaiting_exam_selection",
     AWAITING_SUBJECT_SELECTION |-> "revision_awaiting_subject_selection",
     MAIN_MENU                  |-> "revision_main_menu",
     IN_QUIZ                    |-> "revision_in_quiz",
     AWAITING_QUIZ_ANSWER       |-> "revision_awaiting_quiz_answer",
     AWAITING_FLASHCARD_TOPIC   |-> "revision_awaiting_flashcard_topic",
     AWAITING_AI_QUIZ_TOPIC     |-> "revision_awaiting_ai_quiz_topic"]

RESUME_GENERATOR_STATES ==
    [AWAITING_NAME    |-> "resume_awaiting_name",
     AWAITING_SKILLS  |-> "resume_awaiting_skills",
     AWAITING_GOALS   |-> "resume_awaiting_goals",
     CONFIRM_GENERATE |-> "resume_confirm_generate"]

LEGAL_SIMPLIFIER_STATES ==
    [AWAITING_DOCUMENT_TEXT |-> "legal_awaiting_document_text",
     AWAITING_LANGUAGE      |-> "legal_awaiting_language"]

NEWS_DIGEST_STATES ==
    [AWAITING_FEED_PREFERENCE |-> "news_awaiting_feed_preference",
     AWAITING_DELIVERY_TIME   |-> "news_awaiting_delivery_time"]

RECIPE_COACH_STATES ==
    [AWAITING_INGREDIENTS        |-> "recipe_awaiting_ingredients",
     AWAITING_PHOTO_CONFIRMATION |-> "recipe_awaiting_photo_confirmation"]

CAREER_COUNSELOR_STATES ==
    [AWAITING_INTERESTS  |-> "career_awaiting_interests",
     AWAITING_STREAM_GPA |-> "career_awaiting_stream_gpa"]

YOUTUBE_SCRIPT_STATES == [AWAITING_VIDEO_IDEA |-> "youtube_awaiting_video_idea"]

LOCAL_SERVICES_STATES == [AWAITING_CITY_SERVICE |-> "local_awaiting_city_service"]

FINANCE_REMINDER_STATES ==
    [MAIN_MENU          |-> "finance_main_menu",
     AWAITING_BILL_TYPE |-> "finance_awaiting_bill_type",
     AWAITING_DUE_DATE  |-> "finance_awaiting_due_date",
     AWAITING_AMOUNT    |-> "finance_awaiting_amount"]

INSTAGRAM_CAPTION_STATES ==
    [AWAITING_PHOTO_DESCRIPTION |-> "insta_awaiting_photo_description"]

ORDER_TRACKING_STATES ==
    [AWAITING_AWB               |-> "order_awaiting_awb",
     AWAITING_COMPLAINT_DETAILS |-> "order_awaiting_complaint_details"]

MENTAL_HEALTH_STATES == [AWAITING_FEELINGS |-> "mental_awaiting_feelings"]

TRANSLATOR_STATES ==
    [AWAITING_TEXT     |-> "translator_awaiting_text",
     AWAITING_LANGUAGE |-> "translator_awaiting_language"]

USER_STATES == [AWAITING_BOT_SELECTION |-> "awaiting_bot_selection"]

\* the values of a states table
Values(table) == {table[k] : k \in DOMAIN table}

EXAMS ==
    (K1 :> "JEE") @@ (K2 :> "NEET") @@ (K3 :> "UPSC") @@ (K4 :> "CUET") @@
    (K5 :> "SSC CGL") @@ (K6 :> "School Exams (Class 10)") @@
    (K7 :> "School Exams (Class 12)") @@ (K8 :> "Bank PO/Clerk")

SUBJECTS ==
    [e \in {EXAMS[k] : k \in DOMAIN EXAMS} |->
        CASE e = "JEE" ->
               (K1 :> "Physics") @@ (K2 :> "Chemistry") @@ (K3 :> "Math") @@
               (K4 :> "Computer Science") @@ (K5 :> "Biology (for Biotechnology)")
          [] e = "NEET" ->
               (K1 :> "Physics") @@ (K2 :> "Chemistry") @@ (K3 :> "Biology") @@
               (K4 :> "Botany") @@ (K5 :> "Zoology")
          [] e = "UPSC" ->
               (K1 :> "History") @@ (K2 :> "Geography") @@ (K3 :> "Polity") @@
               (K4 :> "Economics") @@ (K5 :> "Environment") @@
               (K6 :> "Science & Technology")
          [] e = "CUET" ->
               (K1 :> "General Test") @@ (K2 :> "English") @@
               (K3 :> "Domain Specific") @@ (K4 :> "Accountancy") @@
               (K5 :> "Business Studies") @@ (K6 :> "Legal Studies")
          [] e = "SSC CGL" ->
               (K1 :> "General Intelligence & Reasoning") @@
               (K2 :> "General Awareness") @@ (K3 :> "Quantitative Aptitude") @@
               (K4 :> "English Comprehension") @@ (K5 :> "Computer Proficiency")
          [] e = "School Exams (Class 10)" ->
               (K1 :> "Mathematics") @@ (K2 :> "Science") @@
               (K3 :> "Social Science") @@
               (K4 :> "English Language & Literature") @@ (K5 :> "Hindi")
          [] e = "School Exams (Class 12)" ->
               (K1 :> "Physics") @@ (K2 :> "Chemistry") @@ (K3 :> "Mathematics") @@
               (K4 :> "Biology") @@ (K5 :> "Computer Science") @@
               (K6 :> "Economics") @@ (K7 :> "Business Studies") @@
               (K8 :> "Accountancy") @@ (K9 :> "History") @@
               (K10 :> "Political Science")
          [] e = "Bank PO/Clerk" ->
               (K1 :> "Reasoning Ability") @@ (K2 :> "Quantitative Aptitude") @@
               (K3 :> "English Language") @@ (K4 :> "General Awareness") @@
               (K5 :> "Computer Knowledge")]

\* SUBJECTS[examType]: examType is an exam name, null or an inherited value
SubjectsOf(examType) ==
    IF examType \in DOMAIN SUBJECTS THEN SUBJECTS[examType] ELSE Undefined

(***************************************************************************)
(* The session record                                                      *)
(***************************************************************************)
EmptyQuiz ==
    [questionIds |-> <<>>, currentQIndex |-> 0, score |-> 0,
     lastQuestionSent |-> <<>>, lastAnswerCorrect |-> Null]

\* FieldValue.serverTimestamp(): a sentinel the store replaces on write
ServerTimestamp == "FieldValue.serverTimestamp"
Timestamp       == "timestamp"

\* the session of a user the store has no document for
NewUserData(from) ==
    [whatsappNumber  |-> from,
     currentBot      |-> Null,
     sessionState    |-> USER_STATES.AWAITING_BOT_SELECTION,
     examType        |-> Null,
     subject         |-> Null,
     currentQuiz     |-> EmptyQuiz,
     resumeData      |-> EmptyObject,
     legalData       |-> EmptyObject,
     newsPreferences |-> <<>>,
     deliveryTime    |-> <<>>,
     careerData      |-> EmptyObject,
     financeData     |-> EmptyObject,
     orderData       |-> EmptyObject,
     textToTranslate |-> <<>>,
     lastInteraction |-> ServerTimestamp]

(***************************************************************************)
(* Replies                                                                 *)
(***************************************************************************)
Say(text) == <<[k |-> text]>>

\* Object.keys(table).map(...).join('\n')
Options(table) == <<[k |-> "options", keys |-> DOMAIN table]>>

BotOptions == Options(MAIN_MENU_OPTIONS)

BotHubMenu == Say("Welcome to the BotHub! Please choose a bot to interact with:") \o BotOptions

InvalidSelection == Say("Invalid selection. Please choose a bot to interact with:") \o BotOptions

InvalidBotSelection == Say("Invalid bot selection. Please choose a number from the list.")

UnexpectedError ==
    Say("An unexpected error occurred. Returning to main menu. Please choose a bot:") \o BotOptions

Oops == Say("Oops! Something went wrong. Please try again later. Type *main menu* to restart.")

\* a question and its lettered options, as the quiz prompts print it
QuizPrompt(n, q) == <<[k |-> "Quiz Q", n |-> n, question |-> q.question, options |-> q.options]>>

(***************************************************************************)
(* Generative content facade                                               *)
(***************************************************************************)
\* One request's answers from the generative service: text says whether a
\* generateContent call for free text succeeds; quiz is the service's answer
\* to the structured quiz request (ok = FALSE: the call or JSON.parse throws).
Generated == [k |-> "generated text"]

generateExplanation(question, options, correctAnswerIndex, userAnswer, g) ==
    IF g.text
    THEN <<[k |-> "explanation", question |-> question, answer |-> userAnswer]>>
    ELSE Say("I am unable to generate an explanation at this moment. Please try again later.")

generateRevisionContent(topic, type, g) ==
    IF g.text
    THEN <<[k |-> "revision content", type |-> type, topic |-> topic]>>
    ELSE Say("I am unable to generate revision content at this moment. Please try again later.")

\* a facade whose error branch returns one entry without question or
\* options instead of the empty array
generateAIQuiz_placeholder(examType, subject, topic, g) ==
    IF g.quiz.ok /\ g.quiz.parsed # <<>>
    THEN [i \in 1..Len(g.quiz.parsed) |->
            [f \in (DOMAIN g.quiz.parsed[i]) \cup {"examType", "subject", "topic"} |->
                CASE f = "examType" -> examType
                  [] f = "subject"  -> subject
                  [] f = "topic"    -> topic
                  [] OTHER          -> g.quiz.parsed[i][f]]]
    ELSE <<[examType |-> examType, subject |-> subject, topic |-> topic]>>

generateAIQuiz(examType, subject, topic, g) ==
    IF g.quiz.ok
    THEN [i \in 1..Len(g.quiz.parsed) |->
            [f \in (DOMAIN g.quiz.parsed[i]) \cup {"examType", "subject", "topic"} |->
                CASE f = "examType" -> examType
                  [] f = "subject"  -> subject
                  [] f = "topic"    -> topic
                  [] OTHER          -> g.quiz.parsed[i][f]]]
    ELSE <<>>

(***************************************************************************)
(* Flow handlers.  A handler mutates userData in place and returns the     *)
(* reply, or throws with the mutations made so far kept in userData.       *)
(***************************************************************************)
Return(u, r) == [u |-> u, r |-> r, threw |-> FALSE]
Throw(u)     == [u |-> u, r |-> <<>>, threw |-> TRUE]

\* an answer index counted from 'a' as 1
AnswerIndex_oneBased(incomingMsg) == charCodeAt0(incomingMsg) - 96

\* incomingMsg.charCodeAt(0) - 97: 'a' -> 0, 'b' -> 1, ...
AnswerIndex(incomingMsg) == charCodeAt0(incomingMsg) - 97

\* a scoring that counts a correct answer twice
Advance_countsTwice(quiz, isCorrect) ==
    [quiz EXCEPT !.score = IF isCorrect THEN @ + 2 ELSE @,
                 !.currentQIndex = @ + 1]

\* an advance that skips a question
Advance_skipsQuestion(quiz, isCorrect) ==
    [quiz EXCEPT !.score = IF isCorrect THEN @ + 1 ELSE @,
                 !.currentQIndex = @ + 2]

\* score++ on a correct answer, then currentQIndex++
Advance(quiz, isCorrect) ==
    [quiz EXCEPT !.score = IF isCorrect THEN @ + 1 ELSE @,
                 !.currentQIndex = @ + 1]

\* a test for a next question that ends the quiz one question early
HasNext_endsEarly(quiz) == quiz.currentQIndex + 1 < Len(quiz.questionIds)

\* currentQIndex < questionIds.length: there is a next question
HasNext(quiz) == quiz.currentQIndex < Len(quiz.questionIds)

\* a lookup that always gives the first question of the quiz
QuestionAt_first(quiz, n) == quiz.questionIds[1].data

\* questionIds[currentQIndex].data, the index counted from 0
QuestionAt(quiz, n) == quiz.questionIds[n + 1].data

\* an answer step that reads the missing question without looking
MissingQuestion_throws(userData) == Throw(userData)

\* if (!currentQuestionData): report the problem and go back to the
\* revision main menu
MissingQuestion(userData) ==
    Return([userData EXCEPT !.sessionState = REVISION_BOT_STATES.MAIN_MENU],
           Say("It seems there was an issue with the last question. Let's try starting a new quiz. Type *quiz* to begin."))

RevisionWelcome ==
    Say("Welcome to the Exam Revision Bot! Which exam are you preparing for?") \o Options(EXAMS)

handleRevisionBotMessage(incomingMsg, userData, g) ==
    LET S == REVISION_BOT_STATES
        st == userData.sessionState
    IN
    CASE st = S.AWAITING_EXAM_SELECTION ->
           IF Truthy(Get(EXAMS, incomingMsg))
           THEN LET u1 == [userData EXCEPT !.examType = Get(EXAMS, incomingMsg),
                                           !.sessionState = S.AWAITING_SUBJECT_SELECTION]
                IN  IF u1.examType \in DOMAIN SUBJECTS
                    THEN Return(u1, <<[k |-> "You selected", what |-> u1.examType]>>
                                    \o Say("Which subject?") \o Options(SUBJECTS[u1.examType]))
                    ELSE Throw(u1)   \* Object.keys(undefined)
           ELSE Return(userData, Say("Please choose a number from the list:") \o Options(EXAMS))
      [] st = S.AWAITING_SUBJECT_SELECTION ->
           IF /\ Truthy(userData.examType)
              /\ userData.examType \in DOMAIN SUBJECTS
              /\ Truthy(Get(SUBJECTS[userData.examType], incomingMsg))
           THEN LET u1 == [userData EXCEPT
                             !.subject = Get(SUBJECTS[userData.examType], incomingMsg),
                             !.sessionState = S.MAIN_MENU]
                IN  Return(u1, <<[k |-> "You selected", what |-> u1.subject]>>
                               \o Say("Want a *quiz* (generated by AI) or *flashcards* today?"))
           ELSE IF userData.examType \in DOMAIN SUBJECTS
                THEN Return(userData, <<[k |-> "Please select a valid subject for",
                                         what |-> userData.examType]>>
                                      \o Options(SUBJECTS[userData.examType]))
                ELSE Throw(userData)   \* Object.keys(undefined)
      [] st = S.MAIN_MENU ->
           IF incomingMsg = T_quiz
           THEN Return([userData EXCEPT !.sessionState = S.AWAITING_AI_QUIZ_TOPIC],
                       <<[k |-> "Great! For your quiz, which specific topic",
                          what |-> userData.subject]>>)
           ELSE IF incomingMsg = T_flashcards
           THEN Return([userData EXCEPT !.sessionState = S.AWAITING_FLASHCARD_TOPIC],
                       <<[k |-> "Great! Which specific topic", what |-> userData.subject]>>)
           ELSE IF incomingMsg = T_change_exam \/ incomingMsg = T_change_subject
           THEN Return([userData EXCEPT !.examType = Null, !.subject = Null,
                                        !.sessionState = S.AWAITING_EXAM_SELECTION],
                       Say("Okay, let's start over with the Exam Revision Bot. Which exam are you preparing for?")
                       \o Options(EXAMS))
           ELSE Return(userData, Say("I didn't understand that. Please type *quiz*, *flashcards*, *change exam*, or *change subject*."))
      [] st = S.AWAITING_AI_QUIZ_TOPIC ->
           LET aiQuestions == generateAIQuiz(userData.examType, userData.subject, incomingMsg, g)
           IN  IF Len(aiQuestions) > 0
               THEN LET firstAIQuestion == aiQuestions[1]
                        u1 == [userData EXCEPT
                                 !.currentQuiz.questionIds =
                                     [i \in 1..Len(aiQuestions) |-> [data |-> aiQuestions[i]]],
                                 !.currentQuiz.currentQIndex = 0,
                                 !.currentQuiz.score = 0,
                                 !.sessionState = S.IN_QUIZ,
                                 !.currentQuiz.lastQuestionSent = <<firstAIQuestion>>]
                    IN  IF "options" \in DOMAIN firstAIQuestion
                        THEN Return([u1 EXCEPT !.sessionState = S.AWAITING_QUIZ_ANSWER],
                                    <<[k |-> "Here's your quiz on", what |-> incomingMsg]>>
                                    \o QuizPrompt(1, firstAIQuestion))
                        ELSE Throw(u1)   \* undefined.map
               ELSE Return([userData EXCEPT !.sessionState = S.MAIN_MENU],
                           <<[k |-> "Sorry, I couldn't generate a quiz for",
                              what |-> incomingMsg]>>)
      [] st = S.AWAITING_QUIZ_ANSWER ->
           IF userData.currentQuiz.lastQuestionSent = <<>>
           THEN MissingQuestion(userData)
           ELSE
           LET currentQuestionData == userData.currentQuiz.lastQuestionSent[1]
               userAnswerIndex == AnswerIndex(incomingMsg)
               isCorrect == (userAnswerIndex = currentQuestionData.correctAnswerIndex)
           IN  IF "options" \notin DOMAIN currentQuestionData
               THEN Throw(userData)   \* undefined[userAnswerIndex]
               ELSE
               LET options == currentQuestionData.options
                   userAnswer == IF userAnswerIndex \in 0..(Len(options) - 1)
                                 THEN options[userAnswerIndex + 1]
                                 ELSE incomingMsg
                   explanation == generateExplanation(currentQuestionData.question, options,
                                      currentQuestionData.correctAnswerIndex, userAnswer, g)
                   verdict == IF isCorrect THEN Say("Correct!") ELSE Say("Incorrect.")
                   u1 == [userData EXCEPT !.currentQuiz = Advance(@, isCorrect)]
                   n == u1.currentQuiz.currentQIndex
               IN  IF HasNext(u1.currentQuiz)
                   THEN LET nextQuestion == QuestionAt(u1.currentQuiz, n)
                            u2 == [u1 EXCEPT !.currentQuiz.lastQuestionSent = <<nextQuestion>>]
                        IN  IF "options" \in DOMAIN nextQuestion
                            THEN Return([u2 EXCEPT !.sessionState = S.AWAITING_QUIZ_ANSWER],
                                        verdict \o explanation \o QuizPrompt(n + 1, nextQuestion))
                            ELSE Throw(u2)   \* undefined.map
                   ELSE Return([u1 EXCEPT !.sessionState = S.MAIN_MENU,
                                          !.currentQuiz = EmptyQuiz],
                               verdict \o explanation
                               \o <<[k |-> "Quiz finished! You scored",
                                     score |-> u1.currentQuiz.score,
                                     outOf |-> Len(u1.currentQuiz.questionIds)]>>)
      [] st = S.AWAITING_FLASHCARD_TOPIC ->
           LET contentType == IF includes(incomingMsg, T_summary) THEN "summary" ELSE "flashcards"
           IN  Return([userData EXCEPT !.sessionState = S.MAIN_MENU],
                      <<[k |-> "Here's your", what |-> contentType]>>
                      \o generateRevisionContent(incomingMsg, contentType, g))
      [] OTHER ->
           Return([userData EXCEPT !.sessionState = S.AWAITING_EXAM_SELECTION], RevisionWelcome)

ResumeWelcome == Say("Welcome to the Resume & Cover Letter Generator Bot! What is your full name?")

\* a handler whose generateContent call has no try/catch around it
handleResumeBotMessage_noCatch(incomingMsg, userData, g) ==
    LET S == RESUME_GENERATOR_STATES
        st == userData.sessionState
    IN
    CASE st = S.AWAITING_NAME ->
           Return([userData EXCEPT !.resumeData = Put(@, "name", incomingMsg),
                                   !.sessionState = S.AWAITING_SKILLS],
                  <<[k |-> "Great", what |-> incomingMsg]>>
                  \o Say("Now, please list your key skills"))
      [] st = S.AWAITING_SKILLS ->
           Return([userData EXCEPT !.resumeData = Put(@, "skills", incomingMsg),
                                   !.sessionState = S.AWAITING_GOALS],
                  Say("Got it. What are your career goals or the type of job you're seeking?"))
      [] st = S.AWAITING_GOALS ->
           LET u1 == [userData EXCEPT !.resumeData = Put(@, "goals", incomingMsg),
                                      !.sessionState = S.CONFIRM_GENERATE]
           IN  Return(u1, <<[k |-> "Okay, I have your", data |-> u1.resumeData]>>
                          \o Say("Ready to generate your resume and cover letter?"))
      [] st = S.CONFIRM_GENERATE ->
           IF incomingMsg = T_yes
           THEN IF g.text
                THEN Return([userData EXCEPT !.resumeData = EmptyObject],
                            Say("Here's your generated content:") \o <<Generated>>)
                ELSE Throw(userData)
           ELSE IF incomingMsg = T_start_over
           THEN Return([userData EXCEPT !.resumeData = EmptyObject,
                                        !.sessionState = S.AWAITING_NAME],
                       Say("Okay, let's start fresh. What is your full name?"))
           ELSE Return(userData, Say("Please type *yes* to generate or *start over* to re-enter details."))
      [] OTHER ->
           Return([userData EXCEPT !.sessionState = S.AWAITING_NAME], ResumeWelcome)

handleResumeBotMessage(incomingMsg, userData, g) ==
    LET S == RESUME_GENERATOR_STATES
        st == userData.sessionState
    IN
    CASE st = S.AWAITING_NAME ->
           Return([userData EXCEPT !.resumeData = Put(@, "name", incomingMsg),
                                   !.sessionState = S.AWAITING_SKILLS],
                  <<[k |-> "Great", what |-> incomingMsg]>>
                  \o Say("Now, please list your key skills"))
      [] st = S.AWAITING_SKILLS ->
           Return([userData EXCEPT !.resumeData = Put(@, "skills", incomingMsg),
                                   !.sessionState = S.AWAITING_GOALS],
                  Say("Got it. What are your career goals or the type of job you're seeking?"))
      [] st = S.AWAITING_GOALS ->
           LET u1 == [userData EXCEPT !.resumeData = Put(@, "goals", incomingMsg),
                                      !.sessionState = S.CONFIRM_GENERATE]
           IN  Return(u1, <<[k |-> "Okay, I have your", data |-> u1.resumeData]>>
                          \o Say("Ready to generate your resume and cover letter?"))
      [] st = S.CONFIRM_GENERATE ->
           IF incomingMsg = T_yes
           THEN IF g.text
                THEN Return([userData EXCEPT !.resumeData = EmptyObject],
                            Say("Here's your generated content:") \o <<Generated>>)
                ELSE Return(userData, Say("Sorry, I could not generate the resume/cover letter at this time. Please try again."))
           ELSE IF incomingMsg = T_start_over
           THEN Return([userData EXCEPT !.resumeData = EmptyObject,
                                        !.sessionState = S.AWAITING_NAME],
                       Say("Okay, let's start fresh. What is your full name?"))
           ELSE Return(userData, Say("Please type *yes* to generate or *start over* to re-enter details."))
      [] OTHER ->
           Return([userData EXCEPT !.sessionState = S.AWAITING_NAME], ResumeWelcome)

LegalWelcome == Say("Welcome to the Legal Document Simplifier Bot! Please paste the legal document or text you want me to explain.")

handleLegalSimplifierMessage(incomingMsg, userData, g) ==
    LET S == LEGAL_SIMPLIFIER_STATES
        st == userData.sessionState
    IN
    CASE st = S.AWAITING_DOCUMENT_TEXT ->
           Return([userData EXCEPT !.legalData = Put(@, "documentText", incomingMsg),
                                   !.sessionState = S.AWAITING_LANGUAGE],
                  Say("Got it. In which language would you like the explanation?"))
      [] st = S.AWAITING_LANGUAGE ->
           IF \/ "documentText" \notin DOMAIN userData.legalData
              \/ userData.legalData.documentText = <<>>
           THEN Return([userData EXCEPT !.sessionState = S.AWAITING_DOCUMENT_TEXT],
                       Say("It seems I lost the document text. Please send the document text again."))
           ELSE IF g.text
           THEN Return([userData EXCEPT !.sessionState = S.AWAITING_DOCUMENT_TEXT,
                                        !.legalData = EmptyObject],
                       <<[k |-> "Here's the simplified explanation in", what |-> incomingMsg]>>
                       \o <<Generated>>)
           ELSE Return([userData EXCEPT !.sessionState = S.AWAITING_DOCUMENT_TEXT],
                       Say("Sorry, I could not simplify that document. Please try again."))
      [] OTHER ->
           Return([userData EXCEPT !.sessionState = S.AWAITING_DOCUMENT_TEXT], LegalWelcome)

NewsWelcome == Say("Welcome to the Daily News Digest Bot! What kind of news are you interested in?")

\* a news handler that takes the first message in an unknown state as the
\* feed preference
handleNewsDigestMessage_takesPreference(incomingMsg, userData, g) ==
    LET S == NEWS_DIGEST_STATES
        st == userData.sessionState
    IN
    IF st = S.AWAITING_DELIVERY_TIME
    THEN Return([userData EXCEPT !.newsPreferences = <<>>, !.deliveryTime = <<>>],
                <<[k |-> "Okay, your daily news digest", prefs |-> userData.newsPreferences,
                   time |-> <<incomingMsg>>]>>)
    ELSE Return([userData EXCEPT !.newsPreferences = <<incomingMsg>>,
                                 !.sessionState = S.AWAITING_DELIVERY_TIME],
                <<[k |-> "Got it. You're interested in", what |-> incomingMsg]>>)

handleNewsDigestMessage(incomingMsg, userData, g) ==
    LET S == NEWS_DIGEST_STATES
        st == userData.sessionState
    IN
    CASE st = S.AWAITING_FEED_PREFERENCE ->
           Return([userData EXCEPT !.newsPreferences = <<incomingMsg>>,
                                   !.sessionState = S.AWAITING_DELIVERY_TIME],
                  <<[k |-> "Got it. You're interested in", what |-> incomingMsg]>>)
      [] st = S.AWAITING_DELIVERY_TIME ->
           Return([userData EXCEPT !.newsPreferences = <<>>, !.deliveryTime = <<>>],
                  <<[k |-> "Okay, your daily news digest", prefs |-> userData.newsPreferences,
                     time |-> <<incomingMsg>>]>>)
      [] OTHER ->
           Return([userData EXCEPT !.sessionState = S.AWAITING_FEED_PREFERENCE], NewsWelcome)

RecipeWelcome == Say("Welcome to the WhatsApp Recipe Coach Bot! Tell me what ingredients you have")

\* In AWAITING_INGREDIENTS the handler reads req.body.NumMedia, and req is
\* not a name in scope of this function: the read throws a ReferenceError.
handleRecipeCoachMessage(incomingMsg, userData, g) ==
    LET S == RECIPE_COACH_STATES
        st == userData.sessionState
    IN
    CASE st = S.AWAITING_INGREDIENTS -> Throw(userData)
      [] OTHER ->
           Return([userData EXCEPT !.sessionState = S.AWAITING_INGREDIENTS], RecipeWelcome)

CareerWelcome == Say("Welcome to the AI Career Counselor Bot! Tell me about your interests")

handleCareerCounselorMessage(incomingMsg, userData, g) ==
    LET S == CAREER_COUNSELOR_STATES
        st == userData.sessionState
    IN
    CASE st = S.AWAITING_INTERESTS ->
           Return([userData EXCEPT !.careerData = Put(@, "interests", incomingMsg),
                                   !.sessionState = S.AWAITING_STREAM_GPA],
                  Say("Got it. What's your academic stream and approximate GPA/percentage?"))
      [] st = S.AWAITING_STREAM_GPA ->
           IF g.text
           THEN Return([userData EXCEPT !.careerData = EmptyObject,
                                        !.sessionState = S.AWAITING_INTERESTS],
                       Say("Here are some career and degree suggestions for you:") \o <<Generated>>)
           ELSE Return([userData EXCEPT !.careerData = Put(@, "streamGpa", incomingMsg),
                                        !.sessionState = S.AWAITING_INTERESTS],
                       Say("Sorry, I could not generate career advice. Please try again."))
      [] OTHER ->
           Return([userData EXCEPT !.sessionState = S.AWAITING_INTERESTS], CareerWelcome)

YoutubeWelcome == Say("Welcome to the YouTube Script & Thumbnail Bot! What's your video idea?")

\* a handler that keeps the video idea in the career counselor's record
handleYoutubeScriptBotMessage_writesCareer(incomingMsg, userData, g) ==
    LET S == YOUTUBE_SCRIPT_STATES
        st == userData.sessionState
    IN
    CASE st = S.AWAITING_VIDEO_IDEA ->
           IF g.text
           THEN Return([userData EXCEPT !.careerData = Put(@, "interests", incomingMsg)],
                       Say("Here are some ideas for your video:") \o <<Generated>>)
           ELSE Return(userData, Say("Sorry, I could not generate content for your video idea. Please try again."))
      [] OTHER ->
           Return([userData EXCEPT !.sessionState = S.AWAITING_VIDEO_IDEA], YoutubeWelcome)

handleYoutubeScriptBotMessage(incomingMsg, userData, g) ==
    LET S == YOUTUBE_SCRIPT_STATES
        st == userData.sessionState
    IN
    CASE st = S.AWAITING_VIDEO_IDEA ->
           IF g.text
           THEN Return(userData, Say("Here are some ideas for your video:") \o <<Generated>>)
           ELSE Return(userData, Say("Sorry, I could not generate content for your video idea. Please try again."))
      [] OTHER ->
           Return([userData EXCEPT !.sessionState = S.AWAITING_VIDEO_IDEA], YoutubeWelcome)

LocalWelcome == Say("Welcome to the Local Services Finder Bot! Tell me what service you need and in which city")

\* incomingMsg.toLowerCase().split(' in '): the first two pieces
SplitIn(msg) ==
    LET m == toLowerCase(msg)
        i == IndexOf(m, T_in)
        rest == SubSeq(m, i + Len(T_in), Len(m))
        j == IndexOf(rest, T_in)
    IN  IF i = 0 THEN [service |-> m, hasCity |-> FALSE, city |-> <<>>]
        ELSE [service |-> SubSeq(m, 1, i - 1), hasCity |-> TRUE,
              city |-> IF j = 0 THEN rest ELSE SubSeq(rest, 1, j - 1)]

handleLocalServicesMessage(incomingMsg, userData, g) ==
    LET S == LOCAL_SERVICES_STATES
        st == userData.sessionState
        parts == SplitIn(incomingMsg)
    IN
    CASE st = S.AWAITING_CITY_SERVICE ->
           IF parts.service # <<>> /\ parts.hasCity /\ parts.city # <<>>
           THEN Return(userData, <<[k |-> "Searching for", service |-> parts.service,
                                    city |-> parts.city]>>)
           ELSE Return(userData, Say("Please tell me the service and city, like \"Mehndi artist in Gwalior\"."))
      [] OTHER ->
           Return([userData EXCEPT !.sessionState = S.AWAITING_CITY_SERVICE], LocalWelcome)

FinanceWelcome == Say("Welcome to the Personal Finance & Bill Reminder Bot! Type *add bill* to set a reminder or *tips* for financial advice.")

handleFinanceReminderMessage(incomingMsg, userData, g) ==
    LET S == FINANCE_REMINDER_STATES
        st == userData.sessionState
    IN
    CASE st = S.MAIN_MENU ->
           IF incomingMsg = T_add_bill
           THEN Return([userData EXCEPT !.sessionState = S.AWAITING_BILL_TYPE],
                       Say("What type of bill is it?"))
           ELSE IF incomingMsg = T_tips
           THEN IF g.text
                THEN Return(userData, Say("Here are some financial tips:") \o <<Generated>>)
                ELSE Return(userData, Say("Sorry, I could not generate financial tips. Please try again."))
           ELSE Return(userData, Say("I didn't understand that. Type *add bill* to set a reminder or *tips* for financial advice."))
      [] st = S.AWAITING_BILL_TYPE ->
           Return([userData EXCEPT !.financeData = Put(@, "billType", incomingMsg),
                                   !.sessionState = S.AWAITING_DUE_DATE],
                  <<[k |-> "What is the due date for your", what |-> incomingMsg]>>)
      [] st = S.AWAITING_DUE_DATE ->
           Return([userData EXCEPT !.financeData = Put(@, "dueDate", incomingMsg),
                                   !.sessionState = S.AWAITING_AMOUNT],
                  <<[k |-> "What is the amount for your", what |-> incomingMsg]>>)
      [] st = S.AWAITING_AMOUNT ->
           Return([userData EXCEPT !.financeData = EmptyObject,
                                   !.sessionState = S.MAIN_MENU],
                  <<[k |-> "Got it! I'll remind you about your",
                     data |-> Put(userData.financeData, "amount", incomingMsg)]>>)
      [] OTHER ->
           Return([userData EXCEPT !.sessionState = S.MAIN_MENU], FinanceWelcome)

InstagramWelcome == Say("Welcome to the Instagram Caption/Hashtag Generator Bot! Describe your photo or content")

\* As in the recipe coach: req is not in scope, the read of req.body throws.
handleInstagramCaptionMessage(incomingMsg, userData, g) ==
    LET S == INSTAGRAM_CAPTION_STATES
        st == userData.sessionState
    IN
    CASE st = S.AWAITING_PHOTO_DESCRIPTION -> Throw(userData)
      [] OTHER ->
           Return([userData EXCEPT !.sessionState = S.AWAITING_PHOTO_DESCRIPTION],
                  InstagramWelcome)

OrderWelcome == Say("Welcome to the AI Order Tracking & Complaint Assistant! Please provide your Air Waybill (AWB) number")

\* an order handler that keeps taking complaint details
handleOrderTrackingMessage_staysOnComplaint(incomingMsg, userData, g) ==
    LET S == ORDER_TRACKING_STATES
        st == userData.sessionState
    IN
    CASE st = S.AWAITING_AWB ->
           Return([userData EXCEPT !.orderData = Put(@, "awb", incomingMsg),
                                   !.sessionState = S.AWAITING_COMPLAINT_DETAILS],
                  <<[k |-> "Got AWB", what |-> incomingMsg]>>)
      [] st = S.AWAITING_COMPLAINT_DETAILS ->
           Return([userData EXCEPT !.orderData = EmptyObject],
                  <<[k |-> "Received your complaint about AWB",
                     awb |-> Field(userData.orderData, "awb"), what |-> incomingMsg]>>)
      [] OTHER ->
           Return([userData EXCEPT !.sessionState = S.AWAITING_AWB], OrderWelcome)

handleOrderTrackingMessage(incomingMsg, userData, g) ==
    LET S == ORDER_TRACKING_STATES
        st == userData.sessionState
    IN
    CASE st = S.AWAITING_AWB ->
           Return([userData EXCEPT !.orderData = Put(@, "awb", incomingMsg),
                                   !.sessionState = S.AWAITING_COMPLAINT_DETAILS],
                  <<[k |-> "Got AWB", what |-> incomingMsg]>>)
      [] st = S.AWAITING_COMPLAINT_DETAILS ->
           Return([userData EXCEPT !.orderData = EmptyObject,
                                   !.sessionState = S.AWAITING_AWB],
                  <<[k |-> "Received your complaint about AWB",
                     awb |-> Field(userData.orderData, "awb"), what |-> incomingMsg]>>)
      [] OTHER ->
           Return([userData EXCEPT !.sessionState = S.AWAITING_AWB], OrderWelcome)

MentalHealthWelcome == Say("Welcome to the Mental Health Journal & Therapy Companion. How was your day? What's on your mind?")

\* a handler that goes back to the bot selection when the generation fails
handleMentalHealthMessage_leavesOnFailure(incomingMsg, userData, g) ==
    LET S == MENTAL_HEALTH_STATES
        st == userData.sessionState
    IN
    CASE st = S.AWAITING_FEELINGS ->
           IF g.text
           THEN Return(userData, Say("Thank you for sharing:") \o <<Generated>>)
           ELSE Return([userData EXCEPT !.sessionState = USER_STATES.AWAITING_BOT_SELECTION],
                       Say("Sorry, I could not process your entry. Please try again."))
      [] OTHER ->
           Return([userData EXCEPT !.sessionState = S.AWAITING_FEELINGS], MentalHealthWelcome)

handleMentalHealthMessage(incomingMsg, userData, g) ==
    LET S == MENTAL_HEALTH_STATES
        st == userData.sessionState
    IN
    CASE st = S.AWAITING_FEELINGS ->
           IF g.text
           THEN Return(userData, Say("Thank you for sharing:") \o <<Generated>>)
           ELSE Return(userData, Say("Sorry, I could not process your entry. Please try again."))
      [] OTHER ->
           Return([userData EXCEPT !.sessionState = S.AWAITING_FEELINGS], MentalHealthWelcome)

TranslatorWelcome == Say("Welcome to the Translator Bot! Please send me the text you want to translate.")

handleTranslatorMessage(incomingMsg, userData, g) ==
    LET S == TRANSLATOR_STATES
        st == userData.sessionState
    IN
    CASE st = S.AWAITING_TEXT ->
           Return([userData EXCEPT !.textToTranslate = <<incomingMsg>>,
                                   !.sessionState = S.AWAITING_LANGUAGE],
                  <<[k |-> "You sent", what |-> incomingMsg]>>)
      [] st = S.AWAITING_LANGUAGE ->
           IF userData.textToTranslate \in {<<>>, << <<>> >>}
           THEN Return([userData EXCEPT !.sessionState = S.AWAITING_TEXT],
                       Say("It seems I lost the text you wanted to translate. Please send the text again."))
           ELSE IF g.text
           THEN Return([userData EXCEPT !.sessionState = S.AWAITING_TEXT],
                       <<[k |-> "Here's the translation into", what |-> incomingMsg]>>
                       \o <<Generated>>)
           ELSE Return([userData EXCEPT !.sessionState = S.AWAITING_TEXT],
                       Say("Sorry, I could not translate that. Please try again or choose a different language."))
      [] OTHER ->
           Return([userData EXCEPT !.sessionState = S.AWAITING_TEXT], TranslatorWelcome)

(***************************************************************************)
(* The /whatsapp handler: the code of its try block                        *)
(***************************************************************************)
IsGlobalCommand(incomingMsg) == incomingMsg = T_restart \/ incomingMsg = T_main_menu

\* a reset of the global commands that forgets the resume record
GlobalReset_keepsResume(userData) ==
    [userData EXCEPT
       !.currentBot = Null,
       !.sessionState = USER_STATES.AWAITING_BOT_SELECTION,
       !.examType = Null,
       !.subject = Null,
       !.currentQuiz = EmptyQuiz,
       !.legalData = EmptyObject,
       !.newsPreferences = <<>>,
       !.deliveryTime = <<>>,
       !.careerData = EmptyObject,
       !.financeData = EmptyObject,
       !.orderData = EmptyObject,
       !.textToTranslate = <<>>]

\* the reset of the global commands: every bot-specific field cleared
GlobalReset(userData) ==
    [userData EXCEPT
       !.currentBot = Null,
       !.sessionState = USER_STATES.AWAITING_BOT_SELECTION,
       !.examType = Null,
       !.subject = Null,
       !.currentQuiz = EmptyQuiz,
       !.resumeData = EmptyObject,
       !.legalData = EmptyObject,
       !.newsPreferences = <<>>,
       !.deliveryTime = <<>>,
       !.careerData = EmptyObject,
       !.financeData = EmptyObject,
       !.orderData = EmptyObject,
       !.textToTranslate = <<>>]

\* a reset that clears currentBot and leaves sessionState as it was
ResetToMenu_botOnly(userData) ==
    [userData EXCEPT !.currentBot = Null]

\* the reset of the catch block and of the delegation's default case
ResetToMenu(userData) ==
    [userData EXCEPT !.currentBot = Null,
                     !.sessionState = USER_STATES.AWAITING_BOT_SELECTION]

\* a case of the selection switch that forgets to set the initial state
EnterBot_noState(userData, state, welcome) ==
    Return(userData, welcome)

\* a case of the selection switch: the initial state and the welcome
\* message of the selected bot
EnterBot(userData, state, welcome) ==
    Return([userData EXCEPT !.sessionState = state], welcome)

\* sessionState === AWAITING_BOT_SELECTION: the top-level bot selection
SelectBot(incomingMsg, userData) ==
    LET selectedBot == Get(MAIN_MENU_OPTIONS, incomingMsg)
        u1 == [userData EXCEPT !.currentBot = selectedBot]
        Enter(state, welcome) == EnterBot(u1, state, welcome)
    IN
    IF Truthy(selectedBot)
    THEN CASE selectedBot = REVISION_BOT ->
                Enter(REVISION_BOT_STATES.AWAITING_EXAM_SELECTION,
                      Say("Welcome to the Exam Revision Bot! Which exam are you preparing for?")
                      \o Options(EXAMS))
           [] selectedBot = RESUME_GENERATOR_BOT ->
                Enter(RESUME_GENERATOR_STATES.AWAITING_NAME,
                      Say("Welcome to the Resume & Cover Letter Generator Bot! What is your full name?"))
           [] selectedBot = LEGAL_SIMPLIFIER_BOT ->
                Enter(LEGAL_SIMPLIFIER_STATES.AWAITING_DOCUMENT_TEXT,
                      Say("Welcome to the Legal Document Simplifier Bot! Please paste the legal document or text you want me to explain."))
           [] selectedBot = NEWS_DIGEST_BOT ->
                Enter(NEWS_DIGEST_STATES.AWAITING_FEED_PREFERENCE,
                      Say("Welcome to the Daily News Digest Bot! What kind of news are you interested in?"))
           [] selectedBot = RECIPE_COACH_BOT ->
                Enter(RECIPE_COACH_STATES.AWAITING_INGREDIENTS,
                      Say("Welcome to the WhatsApp Recipe Coach Bot! Tell me what ingredients you have"))
           [] selectedBot = CAREER_COUNSELOR_BOT ->
                Enter(CAREER_COUNSELOR_STATES.AWAITING_INTERESTS,
                      Say("Welcome to the AI Career Counselor Bot! Tell me about your interests"))
           [] selectedBot = YOUTUBE_SCRIPT_BOT ->
                Enter(YOUTUBE_SCRIPT_STATES.AWAITING_VIDEO_IDEA,
                      Say("Welcome to the YouTube Script & Thumbnail Bot! What's your video idea?"))
           [] selectedBot = LOCAL_SERVICES_BOT ->
                Enter(LOCAL_SERVICES_STATES.AWAITING_CITY_SERVICE,
                      Say("Welcome to the Local Services Finder Bot! Tell me what service you need and in which city"))
           [] selectedBot = FINANCE_REMINDER_BOT ->
                Enter(FINANCE_REMINDER_STATES.MAIN_MENU,
                      Say("Welcome to the Personal Finance & Bill Reminder Bot! Type *add bill* to set a reminder or *tips* for financial advice."))
           [] selectedBot = INSTAGRAM_CAPTION_BOT ->
                Enter(INSTAGRAM_CAPTION_STATES.AWAITING_PHOTO_DESCRIPTION,
                      Say("Welcome to the Instagram Caption/Hashtag Generator Bot! Describe your photo or content"))
           [] selectedBot = ORDER_TRACKING_BOT ->
                Enter(ORDER_TRACKING_STATES.AWAITING_AWB,
                      Say("Welcome to the AI Order Tracking & Complaint Assistant! Please provide your Air Waybill (AWB) number"))
           [] selectedBot = MENTAL_HEALTH_BOT ->
                Enter(MENTAL_HEALTH_STATES.AWAITING_FEELINGS,
                      Say("Welcome to the Mental Health Journal & Therapy Companion. How was your day? What's on your mind?"))
           [] selectedBot = TRANSLATOR_BOT ->
                Enter(TRANSLATOR_STATES.AWAITING_TEXT,
                      Say("Welcome to the Translator Bot! Please send me the text you want to translate."))
           [] OTHER -> Return(u1, InvalidBotSelection)
    ELSE Return(userData, InvalidSelection)

\* a fallback that notifies the user and leaves the session as it is
InvalidBotFallback_keeps(userData) ==
    Return(userData, UnexpectedError)

\* the default case of the delegation switch: currentBot is somehow invalid
InvalidBotFallback(userData) ==
    Return(ResetToMenu(userData), UnexpectedError)

\* the user is already in a sub-bot: delegate the message
Delegate(incomingMsg, userData, g) ==
    LET bot == userData.currentBot
    IN
    CASE bot = REVISION_BOT          -> handleRevisionBotMessage(incomingMsg, userData, g)
      [] bot = RESUME_GENERATOR_BOT  -> handleResumeBotMessage(incomingMsg, userData, g)
      [] bot = LEGAL_SIMPLIFIER_BOT  -> handleLegalSimplifierMessage(incomingMsg, userData, g)
      [] bot = NEWS_DIGEST_BOT       -> handleNewsDigestMessage(incomingMsg, userData, g)
      [] bot = RECIPE_COACH_BOT      -> handleRecipeCoachMessage(incomingMsg, userData, g)
      [] bot = CAREER_COUNSELOR_BOT  -> handleCareerCounselorMessage(incomingMsg, userData, g)
      [] bot = YOUTUBE_SCRIPT_BOT    -> handleYoutubeScriptBotMessage(incomingMsg, userData, g)
      [] bot = LOCAL_SERVICES_BOT    -> handleLocalServicesMessage(incomingMsg, userData, g)
      [] bot = FINANCE_REMINDER_BOT  -> handleFinanceReminderMessage(incomingMsg, userData, g)
      [] bot = INSTAGRAM_CAPTION_BOT -> handleInstagramCaptionMessage(incomingMsg, userData, g)
      [] bot = ORDER_TRACKING_BOT    -> handleOrderTrackingMessage(incomingMsg, userData, g)
      [] bot = MENTAL_HEALTH_BOT     -> handleMentalHealthMessage(incomingMsg, userData, g)
      [] bot = TRANSLATOR_BOT        -> handleTranslatorMessage(incomingMsg, userData, g)
      [] OTHER -> InvalidBotFallback(userData)

\* the routing below the global commands
RouteMessage(incomingMsg, userData, g) ==
    IF userData.sessionState = USER_STATES.AWAITING_BOT_SELECTION
    THEN SelectBot(incomingMsg, userData)
    ELSE Delegate(incomingMsg, userData, g)

\* the catch block around the routing
Caught(userData) == [u |-> ResetToMenu(userData), r |-> Oops, threw |-> TRUE]

\* try { routing } catch { ... }: the session and the reply the finally block gets
TryRoute(incomingMsg, userData, g) ==
    LET res == RouteMessage(incomingMsg, userData, g)
    IN  IF res.threw THEN Caught(res.u) ELSE res

(***************************************************************************)
(* Facades: session store and message delivery                             *)
(***************************************************************************)
\* req.body.From.replace('whatsapp:', '') on the sender as channel and number
From == <<"whatsapp:", "+15550001">>

\* a second sender, and the same arriving without the channel prefix
Peer     == <<"whatsapp:", "+15550002">>
PeerBare == <<"+15550002">>

\* a key that forgets the number: every sender gets the same document
StripChannel_dropsNumber(address) == <<>>

\* String.prototype.replace with a string pattern: the first occurrence of
\* the channel prefix is removed
StripChannel(address) ==
    LET hits == {i \in 1..Len(address) : address[i] = "whatsapp:"}
        i == CHOOSE i \in hits : \A j \in hits : i <= j
    IN  IF hits = {} THEN address
        ELSE SubSeq(address, 1, i - 1) \o SubSeq(address, i + 1, Len(address))

\* The store's encoding of a value read from Object.prototype: the
\* prototype object has no own keys and is written as an empty map; a
\* function cannot be encoded and the write throws.
EmptyMap == "{}"

Encoded(v) == IF v = ObjectProto THEN EmptyMap ELSE v

EncodedQuestion(q) ==
    [f \in DOMAIN q |-> IF f \in {"examType", "subject"} THEN Encoded(q[f]) ELSE q[f]]

\* a write that leaves the resume record out of the document
Stored_dropsResume(userData) ==
    [userData EXCEPT !.lastInteraction = Timestamp, !.resumeData = EmptyObject]

\* what userRef.set(userData) leaves in the store: the whole record, with
\* the serverTimestamp sentinel replaced by the time of the write
Stored(userData) ==
    [userData EXCEPT
       !.lastInteraction = IF @ = ServerTimestamp THEN Timestamp ELSE @,
       !.currentBot = Encoded(@),
       !.examType = Encoded(@),
       !.subject = Encoded(@),
       !.currentQuiz.questionIds = [i \in 1..Len(@) |-> [data |-> EncodedQuestion(@[i].data)]],
       !.currentQuiz.lastQuestionSent = [i \in 1..Len(@) |-> EncodedQuestion(@[i])]]

\* userData holds a function, which the store cannot encode
Unencodable(userData) ==
    \/ userData.currentBot = ObjectCtor
    \/ userData.examType = ObjectCtor
    \/ userData.subject = ObjectCtor
    \/ \E i \in 1..Len(userData.currentQuiz.questionIds) :
          userData.currentQuiz.questionIds[i].data.subject = ObjectCtor

\* a write that merges into an existing document and keeps its sessionState
Save_keepsState(current, userData) ==
    IF current = <<>>
    THEN <<Stored(userData)>>
    ELSE <<[Stored(userData) EXCEPT !.sessionState = current[1].sessionState]>>

\* a write that only creates the document and leaves an existing one alone
Save_createOnly(current, userData) ==
    IF current = <<>> THEN <<Stored(userData)>> ELSE current

\* userRef.set(userData): the document becomes the session written, whole,
\* whatever the document held before
Save(current, userData) == <<Stored(userData)>>

(***************************************************************************)
(* State                                                                   *)
(***************************************************************************)
VARIABLES
    db,               \* the users document of the sender From: <<>> or <<data>>
    peer,             \* the users document of the sender Peer
    sender,           \* per pipeline: req.body.From of its current request
    pc,               \* per request pipeline: where it stands
    body,             \* per pipeline: req.body.Body of its current request
    incomingMsg,      \* per pipeline: the normalised message text
    loaded,           \* per pipeline: the session as userRef.get() gave it
    userData,         \* per pipeline: its in-memory copy of the session
    responseMessage,  \* per pipeline: the reply
    log               \* per pipeline: the store writes, sends and
                      \* acknowledgements of its current request, in order

vars == <<db, peer, sender, pc, body, incomingMsg, loaded, userData, responseMessage, log>>

Pipelines == {1, 2}

NoBody == <<>>
Body(text) == <<text>>

WriteEv(data)        == [op |-> "write", data |-> data]
SendEv(message, ok)  == [op |-> "send", message |-> message, delivered |-> ok]
AckEv                == [op |-> "ack"]
AckThrowsEv          == [op |-> "ack throws"]

Count(events, op) == Cardinality({i \in 1..Len(events) : events[i].op = op})

Init ==
    /\ db = <<>>
    /\ pc = [h \in Pipelines |-> "idle"]
    /\ body = [h \in Pipelines |-> NoBody]
    /\ incomingMsg = [h \in Pipelines |-> <<>>]
    /\ loaded = [h \in Pipelines |-> NewUserData(StripChannel(From))]
    /\ userData = [h \in Pipelines |-> NewUserData(StripChannel(From))]
    /\ responseMessage = [h \in Pipelines |-> <<>>]
    /\ log = [h \in Pipelines |-> <<>>]
    /\ peer = <<>>
    /\ sender = [h \in Pipelines |-> From]

(***************************************************************************)
(* Actions: one per stretch of the handler between two store operations    *)
(***************************************************************************)
\* const from = req.body.From.replace('whatsapp:', '')
from(h) == StripChannel(sender[h])

\* userRef = db.collection('users').doc(from): the document of the request
UserDoc(h) == IF from(h) = StripChannel(From) THEN db ELSE peer

\* userRef.set(userData): the request's own document is written, the other
\* document of the collection is not touched
SetUserDoc(h, u) ==
    IF from(h) = StripChannel(From)
    THEN db' = Save(db, u) /\ peer' = peer
    ELSE peer' = Save(peer, u) /\ db' = db

\* A request arrives: Body.trim().toLowerCase(), then userRef.get() is
\* issued.  A request without Body throws before anything else happens.
ReceiveFrom(h, bodies, senders) ==
    /\ pc[h] \in {"idle", "done", "failed"}
    /\ \E s \in senders :
         /\ sender' = [sender EXCEPT ![h] = s]
         /\ loaded' = [loaded EXCEPT ![h] = NewUserData(StripChannel(s))]
         /\ userData' = [userData EXCEPT ![h] = NewUserData(StripChannel(s))]
    /\ \E b \in bodies :
         /\ body' = [body EXCEPT ![h] = b]
         /\ IF b = NoBody
            THEN /\ pc' = [pc EXCEPT ![h] = "failed"]
                 /\ incomingMsg' = [incomingMsg EXCEPT ![h] = <<>>]
            ELSE /\ pc' = [pc EXCEPT ![h] = "get"]
                 /\ incomingMsg' = [incomingMsg EXCEPT ![h] = toLowerCase(trim(b[1]))]
    /\ responseMessage' = [responseMessage EXCEPT ![h] = <<>>]
    /\ log' = [log EXCEPT ![h] = <<>>]
    /\ UNCHANGED <<db, peer>>

\* a request of the sender From
Receive(h, bodies) == ReceiveFrom(h, bodies, {From})

\* userRef.get() rejects: the handler is not yet inside its try block
LoadFails(h) ==
    /\ pc[h] = "get"
    /\ pc' = [pc EXCEPT ![h] = "failed"]
    /\ UNCHANGED <<db, peer, sender, body, incomingMsg, loaded, userData, responseMessage, log>>

\* userRef.get() resolves with the stored session, or the session is the
\* defaults of a new user; then the try block runs up to its store write.
\* A global command resets the session and issues its own write; everything
\* else runs the routing, the catch block if it throws, and the stamp of
\* the finally block.
Load(h, gens) ==
    /\ pc[h] = "get"
    /\ LET got == IF UserDoc(h) = <<>> THEN NewUserData(from(h)) ELSE UserDoc(h)[1]
       IN  /\ loaded' = [loaded EXCEPT ![h] = got]
           /\ IF IsGlobalCommand(incomingMsg[h])
              THEN /\ userData' = [userData EXCEPT ![h] = GlobalReset(got)]
                   /\ responseMessage' = [responseMessage EXCEPT ![h] = BotHubMenu]
                   /\ pc' = [pc EXCEPT ![h] = "global set"]
              ELSE \E g \in gens :
                     LET res == TryRoute(incomingMsg[h], got, g)
                     IN  /\ userData' = [userData EXCEPT ![h] =
                                           [res.u EXCEPT !.lastInteraction = ServerTimestamp]]
                         /\ responseMessage' = [responseMessage EXCEPT ![h] = res.r]
                         /\ pc' = [pc EXCEPT ![h] = "final set"]
    /\ UNCHANGED <<db, peer, sender, body, incomingMsg, log>>

\* the routing of this message in this session awaits the generative
\* service: its outcome depends on what the service answers
CallsFacade(msg, session, gens) ==
    \E g1, g2 \in gens : RouteMessage(msg, session, g1) # RouteMessage(msg, session, g2)

\* userRef.get() resolves and the routing awaits a generateContent call
\* that never settles: no timeout, no cancellation, the handler stays there
LoadHangs(h, gens) ==
    /\ pc[h] = "get"
    /\ ~IsGlobalCommand(incomingMsg[h])
    /\ LET got == IF UserDoc(h) = <<>> THEN NewUserData(from(h)) ELSE UserDoc(h)[1]
       IN  /\ CallsFacade(incomingMsg[h], got, gens)
           /\ loaded' = [loaded EXCEPT ![h] = got]
    /\ pc' = [pc EXCEPT ![h] = "hung"]
    /\ UNCHANGED <<db, peer, sender, body, incomingMsg, userData, responseMessage, log>>

\* the write of the global-command branch succeeds
GlobalSet(h) ==
    /\ pc[h] = "global set"
    /\ SetUserDoc(h, userData[h])
    /\ log' = [log EXCEPT ![h] = Append(@, WriteEv(Stored(userData[h])))]
    /\ pc' = [pc EXCEPT ![h] = "global reply"]
    /\ UNCHANGED <<sender, body, incomingMsg, loaded, userData, responseMessage>>

\* the write of the global-command branch rejects: the catch block runs,
\* then the stamp of the finally block
GlobalSetFails(h) ==
    /\ pc[h] = "global set"
    /\ userData' = [userData EXCEPT ![h] =
                      [Caught(@).u EXCEPT !.lastInteraction = ServerTimestamp]]
    /\ responseMessage' = [responseMessage EXCEPT ![h] = Caught(userData[h]).r]
    /\ pc' = [pc EXCEPT ![h] = "final set"]
    /\ UNCHANGED <<db, peer, sender, body, incomingMsg, loaded, log>>

\* a facade without its try/catch: a failure of the channel is thrown
sendWhatsAppMessage_throws(events, message, delivered) ==
    [log |-> Append(events, SendEv(message, delivered)), threw |-> ~delivered]

\* sendWhatsAppMessage: the message is handed to the channel; a failure of
\* the channel is caught and logged inside the facade, nothing is thrown
sendWhatsAppMessage(events, message, delivered) ==
    [log |-> Append(events, SendEv(message, delivered)), threw |-> FALSE]

\* res.status(200).send(...): throws when the response was already sent
Acknowledge(events) ==
    IF Count(events, "ack") > 0
    THEN [log |-> Append(events, AckThrowsEv), threw |-> TRUE]
    ELSE [log |-> Append(events, AckEv), threw |-> FALSE]

\* send the reply, then acknowledge the request
SendAndAcknowledge(events, message, delivered) ==
    LET sent == sendWhatsAppMessage(events, message, delivered)
    IN  IF sent.threw THEN sent ELSE Acknowledge(sent.log)

\* The global-command branch sends, acknowledges and returns; the finally
\* block then starts with its stamp.  An exception here is one inside the
\* try block: the catch block runs first.
GlobalReply(h) ==
    /\ pc[h] = "global reply"
    /\ \E delivered \in BOOLEAN :
         LET out == SendAndAcknowledge(log[h], responseMessage[h], delivered)
             u   == IF out.threw THEN Caught(userData[h]).u ELSE userData[h]
         IN  /\ log' = [log EXCEPT ![h] = out.log]
             /\ userData' = [userData EXCEPT ![h] =
                               [u EXCEPT !.lastInteraction = ServerTimestamp]]
             /\ responseMessage' = [responseMessage EXCEPT ![h] =
                                      IF out.threw THEN Caught(userData[h]).r ELSE @]
    /\ pc' = [pc EXCEPT ![h] = "final set"]
    /\ UNCHANGED <<db, peer, sender, body, incomingMsg, loaded>>

\* the write of the finally block succeeds
FinalSet(h) ==
    /\ pc[h] = "final set"
    /\ ~Unencodable(userData[h])
    /\ SetUserDoc(h, userData[h])
    /\ log' = [log EXCEPT ![h] = Append(@, WriteEv(Stored(userData[h])))]
    /\ pc' = [pc EXCEPT ![h] = "final reply"]
    /\ UNCHANGED <<sender, body, incomingMsg, loaded, userData, responseMessage>>

\* the write of the finally block throws on a value the store cannot
\* encode: an exception in finally leaves the handler
FinalSetRefused(h) ==
    /\ pc[h] = "final set"
    /\ Unencodable(userData[h])
    /\ pc' = [pc EXCEPT ![h] = "failed"]
    /\ UNCHANGED <<db, peer, sender, body, incomingMsg, loaded, userData, responseMessage, log>>

\* the write of the finally block rejects because the store is failing
FinalSetFails(h) ==
    /\ pc[h] = "final set"
    /\ pc' = [pc EXCEPT ![h] = "failed"]
    /\ UNCHANGED <<db, peer, sender, body, incomingMsg, loaded, userData, responseMessage, log>>

\* the finally block sends and acknowledges; an exception leaves the handler
FinalReply(h) ==
    /\ pc[h] = "final reply"
    /\ \E delivered \in BOOLEAN :
         LET out == SendAndAcknowledge(log[h], responseMessage[h], delivered)
         IN  /\ log' = [log EXCEPT ![h] = out.log]
             /\ pc' = [pc EXCEPT ![h] = IF out.threw THEN "failed" ELSE "done"]
    /\ UNCHANGED <<db, peer, sender, body, incomingMsg, loaded, userData, responseMessage>>

(***************************************************************************)
(* Inputs                                                                  *)
(***************************************************************************)
OptionTexts == << <<"w">>, <<"x">>, <<"y">>, <<"z">> >>

Question(text, correct) ==
    [question |-> text, options |-> OptionTexts, correctAnswerIndex |-> correct]

\* a batch as the quiz prompt asks for it, and one whose entry lacks options
GoodBatch      == <<Question("Q1", 1), Question("Q2", 0), Question("Q3", 3)>>
MalformedBatch == <<[question |-> "Q1", correctAnswerIndex |-> 0]>>
\* a batch whose first entry is as asked for and whose second lacks options
LateMalformedBatch ==
    <<Question("Q1", 1), [question |-> "Q2", correctAnswerIndex |-> 0]>>
\* a batch whose entry has five options and the fifth as the correct one
FiveOptionsBatch ==
    <<[question |-> "Q1", options |-> OptionTexts \o << <<"v">> >>, correctAnswerIndex |-> 4]>>

Gens(batches) ==
    [text : BOOLEAN, quiz : {[ok |-> FALSE, parsed |-> <<>>]}
                             \cup {[ok |-> TRUE, parsed |-> b] : b \in batches}]

RouterGens == Gens({<<>>})

\* the two global commands as a user may type them
MainMenuTyped == <<" ","M","a","i","n"," ","M","e","n","u","\n">>
RestartTyped  == <<"R","E","S","T","A","R","T">>

RouterBodies ==
    {Body(t) : t \in {K1, K2, K3, K4, K5, K6, K7, K8, K9, K10, K11, K12,
                      MainMenuTyped, RestartTyped, T_constructor, T_proto}}
    \cup {NoBody}

\* a revision session up to a quiz, the generator answering with a batch as
\* asked for, with a batch whose entry lacks its options, or not at all
QuizBodies ==
    {Body(K1), Body(T_quiz), Body(<<"a">>), Body(<<"b">>), Body(<<"d">>), Body(<<"e">>),
     Body(MainMenuTyped)}
QuizGens   ==
    Gens({<<>>, GoodBatch, MalformedBatch, LateMalformedBatch, FiveOptionsBatch})

\* two messages of one user that enter different bots
ConcurrentBodies == {Body(K2), Body(K5)}

\* Documents the store may hold that this handler did not write in this
\* shape: a bot of BOT_TYPES without a handler, no bot at all, or the
\* revision bot, each with a top-menu state, a flow state or a state of no
\* table, with or without an exam chosen.
StoredSessions ==
    {[Stored(NewUserData(StripChannel(From))) EXCEPT
        !.currentBot = b, !.sessionState = st, !.examType = e] :
        b \in {PDF_SUMMARIZER_BOT, Null, REVISION_BOT},
        st \in {USER_STATES.AWAITING_BOT_SELECTION, REVISION_BOT_STATES.MAIN_MENU,
                REVISION_BOT_STATES.AWAITING_QUIZ_ANSWER,
                RESUME_GENERATOR_STATES.AWAITING_NAME, "pdf_awaiting_document"},
        e \in {Null, "JEE"}}

StoredBodies == {Body(K1), Body(<<"b">>), Body(RestartTyped)}

\* sessions of the flows that call the generative service: the revision
\* quiz, the resume generator, the legal simplifier, the career counselor
GenBodies ==
    {Body(K1), Body(K2), Body(K3), Body(K6), Body(T_quiz), Body(T_yes), Body(<<"a">>),
     Body(MainMenuTyped)}
GenGens   == Gens({<<>>, GoodBatch})

\* requests that end in every way a request can end: a flow that awaits the
\* generative service, a global command, a session the store cannot encode,
\* a request without Body
LiveBodies ==
    {Body(K1), Body(K7), Body(MainMenuTyped), Body(T_constructor), NoBody}

\* a revision session in which the user types the phrases of the revision
\* main menu
PhraseBodies ==
    {Body(K1), Body(T_quiz), Body(T_flashcards), Body(T_change_exam), Body(T_change_subject),
     Body(<<"b">>), Body(<<"B","o","t","h">>), Body(MainMenuTyped)}

\* sessions of the flows with one input state: the video script, the
\* local services and the journal flows
PlumberInDelhi == <<"P","l","u","m","b","e","r"," ","i","n"," ","D","e","l","h","i">>

LoopBodies ==
    {Body(K7), Body(K8), Body(K12), Body(PlumberInDelhi), Body(MainMenuTyped)}

\* what a user of the bill reminder types: its menu code, its two menu
\* words, a bill detail, and the way back
FinanceBodies ==
    {Body(K9), Body(T_add_bill), Body(T_tips), Body(<<"R","e","n","t">>),
     Body(MainMenuTyped)}

\* messages of one user that walk the revision bot into a quiz and answer
\* it, sent while another request of the same user is in progress
RaceBodies == {Body(K1), Body(T_quiz), Body(<<"b">>)}
RaceGens   == Gens({GoodBatch})

\* the senders of the requests of two users, one of them also without the
\* channel prefix
Senders == {From, Peer, PeerBare}

\* what the two users send: the codes of the recipe coach and of the
\* YouTube script bot
UsersBodies == {Body(K5), Body(K7)}

\* attempts to reach the translator: the code it had in the menu, the name
\* of the bot, the inherited keys of the menu table, next to codes that are
\* in the menu and the way back
TranslatorBodies ==
    {Body(K13), Body(<<"t","r","a","n","s","l","a","t","o","r","_","b","o","t">>),
     Body(T_proto), Body(T_constructor), Body(K12), Body(K8), Body(MainMenuTyped)}

StoreFailsBodies == {Body(K2), Body(K5), Body(T_main_menu), NoBody}

(***************************************************************************)
(* Specifications                                                          *)
(***************************************************************************)
\* requests of one user handled one at a time, the store answering
Next ==
    \/ Receive(1, RouterBodies)
    \/ Load(1, RouterGens)
    \/ GlobalSet(1)
    \/ GlobalReply(1)
    \/ FinalSet(1)
    \/ FinalSetRefused(1)
    \/ FinalReply(1)

Spec == Init /\ [][Next]_vars

\* requests handled one at a time, with a store whose reads and writes may
\* fail
NextStoreFails ==
    \/ Receive(1, StoreFailsBodies)
    \/ Load(1, RouterGens)
    \/ LoadFails(1)
    \/ GlobalSet(1)
    \/ GlobalSetFails(1)
    \/ GlobalReply(1)
    \/ FinalSet(1)
    \/ FinalSetFails(1)
    \/ FinalReply(1)

SpecStoreFails == Init /\ [][NextStoreFails]_vars

\* requests of one user inside the revision bot, the store answering
NextQuiz ==
    \/ Receive(1, QuizBodies)
    \/ Load(1, QuizGens)
    \/ GlobalSet(1)
    \/ GlobalReply(1)
    \/ FinalSet(1)
    \/ FinalReply(1)

SpecQuiz == Init /\ [][NextQuiz]_vars

\* two requests of one user in progress at once, the store answering
NextConcurrent ==
    \E h \in Pipelines :
        \/ Receive(h, ConcurrentBodies)
        \/ Load(h, RouterGens)
        \/ FinalSet(h)
        \/ FinalReply(h)

SpecConcurrent == Init /\ [][NextConcurrent]_vars

\* the store already holds a document of the user
InitStored ==
    /\ db \in {<<d>> : d \in StoredSessions}
    /\ pc = [h \in Pipelines |-> "idle"]
    /\ body = [h \in Pipelines |-> NoBody]
    /\ incomingMsg = [h \in Pipelines |-> <<>>]
    /\ loaded = [h \in Pipelines |-> NewUserData(StripChannel(From))]
    /\ userData = [h \in Pipelines |-> NewUserData(StripChannel(From))]
    /\ responseMessage = [h \in Pipelines |-> <<>>]
    /\ log = [h \in Pipelines |-> <<>>]
    /\ peer = <<>>
    /\ sender = [h \in Pipelines |-> From]

\* requests of a user whose document exists, handled one at a time
NextStored ==
    \/ Receive(1, StoredBodies)
    \/ Load(1, RouterGens)
    \/ GlobalSet(1)
    \/ GlobalReply(1)
    \/ FinalSet(1)
    \/ FinalReply(1)

SpecStored == InitStored /\ [][NextStored]_vars

\* a request has run to its end: the handler returned or an exception left it
Finished(h) == pc[h] \in {"done", "failed"}

\* requests of one user inside the flows that call the generative service
NextGen ==
    \/ Receive(1, GenBodies)
    \/ Load(1, GenGens)
    \/ GlobalSet(1)
    \/ GlobalReply(1)
    \/ FinalSet(1)
    \/ FinalReply(1)

SpecGen == Init /\ [][NextGen]_vars

\* requests of one user with the store answering and every step of the
\* handler that is not waiting for the generative service taken in the end
NextLive ==
    \/ Receive(1, LiveBodies)
    \/ Load(1, RouterGens)
    \/ LoadHangs(1, RouterGens)
    \/ GlobalSet(1)
    \/ GlobalReply(1)
    \/ FinalSet(1)
    \/ FinalSetRefused(1)
    \/ FinalReply(1)

SpecLive ==
    /\ Init /\ [][NextLive]_vars
    /\ WF_vars(Load(1, RouterGens))
    /\ WF_vars(GlobalSet(1))
    /\ WF_vars(GlobalReply(1))
    /\ WF_vars(FinalSet(1))
    /\ WF_vars(FinalSetRefused(1))
    /\ WF_vars(FinalReply(1))

\* requests of one user inside the revision bot who types its menu phrases
NextPhrases ==
    \/ Receive(1, PhraseBodies)
    \/ Load(1, GenGens)
    \/ GlobalSet(1)
    \/ GlobalReply(1)
    \/ FinalSet(1)
    \/ FinalReply(1)

SpecPhrases == Init /\ [][NextPhrases]_vars

\* requests of one user inside the flows with one input state
NextLoop ==
    \/ Receive(1, LoopBodies)
    \/ Load(1, RouterGens)
    \/ GlobalSet(1)
    \/ GlobalReply(1)
    \/ FinalSet(1)
    \/ FinalReply(1)

SpecLoop == Init /\ [][NextLoop]_vars

\* requests of one user inside the bill reminder, the store answering
NextFinance ==
    \/ Receive(1, FinanceBodies)
    \/ Load(1, RouterGens)
    \/ GlobalSet(1)
    \/ GlobalReply(1)
    \/ FinalSet(1)
    \/ FinalReply(1)

SpecFinance == Init /\ [][NextFinance]_vars

\* two requests of one user in progress at once inside the revision bot
NextRace ==
    \E h \in Pipelines :
        \/ Receive(h, RaceBodies)
        \/ Load(h, RaceGens)
        \/ FinalSet(h)
        \/ FinalReply(h)

SpecRace == Init /\ [][NextRace]_vars

\* requests of two users in progress at once, the store answering
NextUsers ==
    \E h \in Pipelines :
        \/ ReceiveFrom(h, UsersBodies, Senders)
        \/ Load(h, RouterGens)
        \/ FinalSet(h)
        \/ FinalReply(h)

SpecUsers == Init /\ [][NextUsers]_vars

\* requests of one user who tries to select the translator
NextTranslator ==
    \/ Receive(1, TranslatorBodies)
    \/ Load(1, RouterGens)
    \/ GlobalSet(1)
    \/ GlobalReply(1)
    \/ FinalSet(1)
    \/ FinalSetRefused(1)
    \/ FinalReply(1)

SpecTranslator == Init /\ [][NextTranslator]_vars

(***************************************************************************)
(* Properties                                                              *)
(***************************************************************************)
AtMenu == USER_STATES.AWAITING_BOT_SELECTION

\* the places of the events of one kind in a request's log
Places(h, op) == {i \in 1..Len(log[h]) : log[h][i].op = op}

\* every bot-specific field of a session holds its default
Cleared(u) ==
    /\ u.examType = Null
    /\ u.subject = Null
    /\ u.currentQuiz = EmptyQuiz
    /\ u.resumeData = EmptyObject
    /\ u.legalData = EmptyObject
    /\ u.newsPreferences = <<>>
    /\ u.deliveryTime = <<>>
    /\ u.careerData = EmptyObject
    /\ u.financeData = EmptyObject
    /\ u.orderData = EmptyObject
    /\ u.textToTranslate = <<>>

\* the states of each flow's state machine
FlowStates ==
    (REVISION_BOT :> Values(REVISION_BOT_STATES)) @@
    (RESUME_GENERATOR_BOT :> Values(RESUME_GENERATOR_STATES)) @@
    (LEGAL_SIMPLIFIER_BOT :> Values(LEGAL_SIMPLIFIER_STATES)) @@
    (NEWS_DIGEST_BOT :> Values(NEWS_DIGEST_STATES)) @@
    (RECIPE_COACH_BOT :> Values(RECIPE_COACH_STATES)) @@
    (CAREER_COUNSELOR_BOT :> Values(CAREER_COUNSELOR_STATES)) @@
    (YOUTUBE_SCRIPT_BOT :> Values(YOUTUBE_SCRIPT_STATES)) @@
    (LOCAL_SERVICES_BOT :> Values(LOCAL_SERVICES_STATES)) @@
    (FINANCE_REMINDER_BOT :> Values(FINANCE_REMINDER_STATES)) @@
    (INSTAGRAM_CAPTION_BOT :> Values(INSTAGRAM_CAPTION_STATES)) @@
    (ORDER_TRACKING_BOT :> Values(ORDER_TRACKING_STATES)) @@
    (MENTAL_HEALTH_BOT :> Values(MENTAL_HEALTH_STATES)) @@
    (TRANSLATOR_BOT :> Values(TRANSLATOR_STATES))

\* What a flow's own handler does with a session that has just entered it
\* (a state it does not recognise): its entry state and its welcome prompt.
JustEntered(bot) ==
    Delegate(<<>>,
             [NewUserData(StripChannel(From)) EXCEPT
                !.currentBot = bot, !.sessionState = "just entered"],
             [text |-> TRUE, quiz |-> [ok |-> FALSE, parsed |-> <<>>]])

\* C1: every request that carries a text, on every path of the handler,
\* ends with exactly one write of the session to the store, exactly one
\* reply handed to the delivery facade and exactly one acknowledgement.
C1_ExactlyOneWriteReplyAck ==
    \A h \in Pipelines :
        (Finished(h) /\ body[h] # NoBody) =>
            /\ Count(log[h], "write") = 1
            /\ Count(log[h], "send") = 1
            /\ Count(log[h], "ack") = 1
            /\ Count(log[h], "ack throws") = 0

\* C2: a persisted session whose currentBot is null has sessionState
\* awaiting_bot_selection.
C2_NullBotIsAtMenu ==
    db # <<>> => (db[1].currentBot = Null => db[1].sessionState = AtMenu)

\* the catch block has reset a session that was inside a flow, and the
\* reset session is the stored one
C2_Witness ==
    /\ pc[1] = "done"
    /\ responseMessage[1] = Oops
    /\ loaded[1].currentBot = RECIPE_COACH_BOT
    /\ db = <<Stored(userData[1])>>
    /\ db[1].currentBot = Null

\* C3: a persisted session whose currentBot is null has every bot-specific
\* field at its default.
C3_NullBotIsCleared ==
    db # <<>> => (db[1].currentBot = Null => Cleared(db[1]))

\* C4: a persisted session whose currentBot is set is in a state of that
\* bot's state machine.
C4_ActiveBotStateIsItsOwn ==
    db # <<>> =>
        (db[1].currentBot # Null =>
            /\ db[1].currentBot \in DOMAIN FlowStates
            /\ db[1].sessionState \in FlowStates[db[1].currentBot])

\* C5: a selection code of MAIN_MENU_OPTIONS sent at the top menu gives a
\* persisted session whose currentBot is the bot of that code and whose
\* sessionState is that bot's entry state, and the reply is that bot's
\* welcome prompt.
C5_SelectionEntersTheBot ==
    \A h \in Pipelines :
        (/\ Finished(h)
         /\ body[h] # NoBody
         /\ loaded[h].sessionState = AtMenu
         /\ incomingMsg[h] \in DOMAIN MAIN_MENU_OPTIONS) =>
            LET bot == MAIN_MENU_OPTIONS[incomingMsg[h]]
            IN  /\ pc[h] = "done"
                /\ Places(h, "write") = {1}
                /\ log[h][1].data.currentBot = bot
                /\ log[h][1].data.sessionState = JustEntered(bot).u.sessionState
                /\ log[h][1].data.sessionState \in FlowStates[bot]
                /\ db = <<log[h][1].data>>
                /\ Places(h, "send") = {2}
                /\ log[h][2].message = JustEntered(bot).r

\* the last code of the menu has been sent at the top menu
C5_Witness ==
    /\ pc[1] = "done"
    /\ incomingMsg[1] = K12
    /\ loaded[1].sessionState = AtMenu
    /\ db # <<>>
    /\ db[1].currentBot = MENTAL_HEALTH_BOT

\* C6: 'main menu' or 'restart', in any letter case and with surrounding
\* whitespace, sent in any session state, leaves the stored session with
\* currentBot null, sessionState awaiting_bot_selection and every
\* bot-specific field cleared, and every reply of the request is the bot
\* selection menu.  The stored session is the same whatever the session
\* was before, so a second command changes nothing.
C6_GlobalCommandResets ==
    \A h \in Pipelines :
        (Finished(h) /\ body[h] \in {Body(MainMenuTyped), Body(RestartTyped)}) =>
            /\ db # <<>>
            /\ db[1].currentBot = Null
            /\ db[1].sessionState = AtMenu
            /\ Cleared(db[1])
            /\ db[1] = Stored(GlobalReset(db[1]))
            /\ db[1] = Stored(GlobalReset(loaded[h]))
            /\ Places(h, "send") # {}
            /\ \A i \in Places(h, "send") : log[h][i].message = BotHubMenu

\* the command was typed with capitals and whitespace inside a flow that
\* had collected data
C6_Witness ==
    /\ Finished(1)
    /\ body[1] = Body(MainMenuTyped)
    /\ loaded[1].currentBot = RESUME_GENERATOR_BOT
    /\ loaded[1].resumeData # EmptyObject
    /\ db # <<>>
    /\ db[1].currentBot = Null

\* C7: when the routing of a request throws, the reply is the apology, the
\* session is reset to the top menu, the reset session is persisted and the
\* request is acknowledged.
C7_ExceptionIsAbsorbed ==
    \A h \in Pipelines :
        (/\ Finished(h)
         /\ body[h] # NoBody
         /\ ~IsGlobalCommand(incomingMsg[h])
         /\ \E g \in RouterGens : RouteMessage(incomingMsg[h], loaded[h], g).threw) =>
            /\ pc[h] = "done"
            /\ Places(h, "write") = {1}
            /\ log[h][1].data.currentBot = Null
            /\ log[h][1].data.sessionState = AtMenu
            /\ db = <<log[h][1].data>>
            /\ Places(h, "send") = {2}
            /\ log[h][2].message = Oops
            /\ Places(h, "ack") = {3}

\* C8: whatever fails (the load, the save, a request without a text), a
\* request ends with a reply and with an acknowledgement.
C8_AlwaysReplyAndAck ==
    \A h \in Pipelines :
        Finished(h) => (Places(h, "send") # {} /\ Places(h, "ack") # {})

\* C9: a delivery that fails prevents neither the write of the session nor
\* the acknowledgement of the request: the request ends as it does when the
\* delivery succeeds.
C9_DeliveryFailureIsSwallowed ==
    \A h \in Pipelines :
        \A i \in Places(h, "send") :
            ~log[h][i].delivered =>
                /\ \E j \in Places(h, "write") : j < i /\ db # <<>>
                /\ (Finished(h) \/ Len(log[h]) > i) =>
                       /\ Len(log[h]) > i
                       /\ log[h][i + 1].op \in {"ack", "ack throws"}
                /\ Finished(h) => Places(h, "ack") # {}

\* a request has ended whose only delivery failed
C9_Witness ==
    /\ pc[1] = "done"
    /\ Places(1, "send") = {2}
    /\ ~log[1][2].delivered
    /\ Places(1, "ack") = {3}

\* C10: within a request the session is written before the reply is handed
\* to delivery, the acknowledgement comes after both, and no write of the
\* request follows its acknowledgement.
C10_PersistDeliverAcknowledge ==
    \A h \in Pipelines :
        /\ \A i \in Places(h, "send") : \E j \in Places(h, "write") : j < i
        /\ \A i \in Places(h, "ack") : \E j \in Places(h, "send") : j < i
        /\ \A i \in Places(h, "ack") : \A j \in Places(h, "write") : j < i

\* the session a request wrote last, and whether it wrote at all
Wrote(events) == Count(events, "write") > 0
LastWritten(events) ==
    events[CHOOSE i \in 1..Len(events) :
              /\ events[i].op = "write"
              /\ \A j \in (i + 1)..Len(events) : events[j].op # "write"].data

\* two requests have loaded the same session, each has changed its own copy
\* differently and each has written it
LostUpdateRace ==
    /\ pc[1] = "done" /\ pc[2] = "done"
    /\ loaded[1] = loaded[2]
    /\ Wrote(log[1]) /\ Wrote(log[2])
    /\ LastWritten(log[1]) # LastWritten(log[2])

\* C11: the store has no mutual exclusion per user.  Every write of a request
\* replaces the stored session by that request's own copy, whatever the
\* other request wrote in between (last write wins); and when two requests
\* that loaded the same session have both written, the stored session is the
\* copy of exactly one of them while both requests have handed a reply to
\* delivery.
C11_LastWriteWins ==
    [][/\ \A h \in Pipelines :
            Count(log'[h], "write") > Count(log[h], "write") =>
                db' = <<LastWritten(log'[h])>>
       /\ LostUpdateRace' =>
            /\ \E h \in Pipelines :
                  /\ db' = <<LastWritten(log'[h])>>
                  /\ \A o \in Pipelines \ {h} : db' # <<LastWritten(log'[o])>>
            /\ \A h \in Pipelines : Count(log'[h], "send") = 1]_vars

\* both requests loaded the fresh session, one entered the resume bot and
\* the other the recipe bot; the stored session is in the recipe bot only,
\* and both requests were replied to
C11_Witness ==
    /\ LostUpdateRace
    /\ loaded[1].currentBot = Null
    /\ LastWritten(log[1]).currentBot = RESUME_GENERATOR_BOT
    /\ LastWritten(log[2]).currentBot = RECIPE_COACH_BOT
    /\ db = <<LastWritten(log[2])>>
    /\ log[1][2].message = ResumeWelcome
    /\ log[2][2].message = RecipeWelcome

\* the request of pipeline h found the session at the top menu and its
\* message is neither a global command nor a code of MAIN_MENU_OPTIONS
MenuMiss(h) ==
    /\ Finished(h)
    /\ body[h] # NoBody
    /\ loaded[h].sessionState = AtMenu
    /\ ~IsGlobalCommand(incomingMsg[h])
    /\ incomingMsg[h] \notin DOMAIN MAIN_MENU_OPTIONS

\* C12: at the top menu a message that is no selection code leaves the
\* session as it was loaded, the interaction timestamp apart, and the reply
\* is the invalid-selection notice followed by the menu.
C12_MissLeavesSessionAlone ==
    \A h \in Pipelines :
        MenuMiss(h) =>
            /\ Places(h, "write") = {1}
            /\ log[h][1].data = Stored([loaded[h] EXCEPT !.lastInteraction = ServerTimestamp])
            /\ db = <<log[h][1].data>>
            /\ Places(h, "send") = {2}
            /\ log[h][2].message = InvalidSelection
            /\ log[h][2].message =
                  Say("Invalid selection. Please choose a bot to interact with:") \o BotOptions

\* the request of pipeline h found a session that is not at the top menu
\* and whose currentBot the delegation switch has no case for
InvalidActiveBot(h) ==
    /\ Finished(h)
    /\ body[h] # NoBody
    /\ ~IsGlobalCommand(incomingMsg[h])
    /\ loaded[h].sessionState # AtMenu
    /\ loaded[h].currentBot \notin DOMAIN FlowStates

\* C13: a session that is not at the top menu and whose currentBot is no
\* bot the router can delegate to is reset to currentBot null and
\* sessionState awaiting_bot_selection, the reply is the generic error
\* notice with the menu, and the reset session is persisted.
C13_InvalidBotFallsBackToMenu ==
    \A h \in Pipelines :
        InvalidActiveBot(h) =>
            /\ pc[h] = "done"
            /\ Places(h, "write") = {1}
            /\ log[h][1].data.currentBot = Null
            /\ log[h][1].data.sessionState = AtMenu
            /\ log[h][1].data =
                  Stored([ResetToMenu(loaded[h]) EXCEPT !.lastInteraction = ServerTimestamp])
            /\ db = <<log[h][1].data>>
            /\ Places(h, "send") = {2}
            /\ log[h][2].message =
                  Say("An unexpected error occurred. Returning to main menu. Please choose a bot:")
                  \o BotOptions

\* a stored session of the bot without handler, in a state of no table, has
\* received a message
C13_Witness ==
    /\ InvalidActiveBot(1)
    /\ loaded[1].currentBot = PDF_SUMMARIZER_BOT
    /\ loaded[1].sessionState = "pdf_awaiting_document"
    /\ pc[1] = "done"
    /\ db # <<>> /\ db[1].currentBot = Null

\* C14: the quiz record of every persisted session satisfies
\* 0 <= currentQIndex <= length(questionIds) and 0 <= score <= currentQIndex.
C14_QuizCountersInRange ==
    db # <<>> =>
        LET quiz == db[1].currentQuiz
        IN  /\ 0 <= quiz.currentQIndex
            /\ quiz.currentQIndex <= Len(quiz.questionIds)
            /\ 0 <= quiz.score
            /\ quiz.score <= quiz.currentQIndex

\* a quiz of three questions is persisted after two answers, one of them
\* correct
C14_Witness ==
    /\ pc[1] = "done"
    /\ db # <<>>
    /\ db[1].sessionState = REVISION_BOT_STATES.AWAITING_QUIZ_ANSWER
    /\ Len(db[1].currentQuiz.questionIds) = 3
    /\ db[1].currentQuiz.currentQIndex = 2
    /\ db[1].currentQuiz.score = 1

\* a question as the quiz prompt asks for it: four options and a correct
\* index in 0..3
WellFormed(q) ==
    /\ "options" \in DOMAIN q
    /\ Len(q.options) = 4
    /\ "correctAnswerIndex" \in DOMAIN q
    /\ q.correctAnswerIndex \in 0..3

\* the request of pipeline h is an answer to a quiz question that the
\* handler worked through without an exception
Answered(h) ==
    /\ pc[h] = "done"
    /\ ~IsGlobalCommand(incomingMsg[h])
    /\ loaded[h].currentBot = REVISION_BOT
    /\ loaded[h].sessionState = REVISION_BOT_STATES.AWAITING_QUIZ_ANSWER
    /\ loaded[h].currentQuiz.lastQuestionSent # <<>>
    /\ responseMessage[h] # Oops

\* the part of a reply that reports the end of a quiz
FinishedReport(reply) == {i \in 1..Len(reply) : reply[i].k = "Quiz finished! You scored"}

OptionLetters == (<<"a">> :> 0) @@ (<<"b">> :> 1) @@ (<<"c">> :> 2) @@ (<<"d">> :> 3)

\* the single characters the model has lower-case forms and codes for
SingleChars == {<<Lower[i]>> : i \in 1..Len(Lower)} \cup {K1, K2, <<" ">>}

TopicGiven(h) ==
    /\ Finished(h)
    /\ body[h] # NoBody
    /\ ~IsGlobalCommand(incomingMsg[h])
    /\ loaded[h].currentBot = REVISION_BOT
    /\ loaded[h].sessionState = REVISION_BOT_STATES.AWAITING_AI_QUIZ_TOPIC

NoQuizReply(topic) == <<[k |-> "Sorry, I couldn't generate a quiz for", what |-> topic]>>

C18_StoredQuestionsWellFormed ==
    db # <<>> =>
        \A i \in 1..Len(db[1].currentQuiz.questionIds) :
            WellFormed(db[1].currentQuiz.questionIds[i].data)


\* the fixed strings a flow or facade puts in place of generated content
Apologies ==
    {"I am unable to generate an explanation at this moment. Please try again later.",
     "I am unable to generate revision content at this moment. Please try again later.",
     "Sorry, I couldn't generate a quiz for",
     "Sorry, I could not generate the resume/cover letter at this time. Please try again.",
     "Sorry, I could not simplify that document. Please try again.",
     "Sorry, I could not generate career advice. Please try again.",
     "Sorry, I could not generate content for your video idea. Please try again.",
     "Sorry, I could not generate financial tips. Please try again.",
     "Sorry, I could not process your entry. Please try again.",
     "Sorry, I could not translate that. Please try again or choose a different language."}

Apologised(reply) == \E i \in 1..Len(reply) : reply[i].k \in Apologies

\* the generative service answering no call of a request
ServiceDown == [text |-> FALSE, quiz |-> [ok |-> FALSE, parsed |-> <<>>]]

\* a request below the global commands whose routing has run
Routed(h) ==
    /\ pc[h] \in {"final set", "final reply", "done"}
    /\ ~IsGlobalCommand(incomingMsg[h])

\* C19: when a flow's call of the generative facade fails, the flow answers
\* with a fixed apology and its state after the step is the state it was in
\* before the call.
C19_FailedCallKeepsState ==
    \A h \in Pipelines :
        (Routed(h) /\ Apologised(responseMessage[h])) =>
            userData[h].sessionState = loaded[h].sessionState

\* C20: a failure of the generative service is recovered inside the flow or
\* facade that made the call: a request throws with the service down only
\* if it throws whatever the service answers, and a request answered with an
\* apology keeps its currentBot and is not reset to the top menu.
C20_FailureStaysInFlow ==
    \A h \in Pipelines :
        Routed(h) =>
            /\ RouteMessage(incomingMsg[h], loaded[h], ServiceDown).threw =>
                    \A g \in GenGens : RouteMessage(incomingMsg[h], loaded[h], g).threw
            /\ Apologised(responseMessage[h]) =>
                    /\ userData[h].currentBot = loaded[h].currentBot
                    /\ userData[h].currentBot # Null
                    /\ userData[h].sessionState # AtMenu

\* the resume generator has answered 'yes' with its apology and the stored
\* session is still in the resume generator, waiting for the confirmation
C20_Witness ==
    /\ pc[1] = "done"
    /\ incomingMsg[1] = T_yes
    /\ Apologised(responseMessage[1])
    /\ db # <<>>
    /\ db[1].currentBot = RESUME_GENERATOR_BOT
    /\ db[1].sessionState = RESUME_GENERATOR_STATES.CONFIRM_GENERATE


\* the fields of the session that belong to a flow: its data record
OwnRecord(bot) ==
    CASE bot = REVISION_BOT         -> {"examType", "subject", "currentQuiz"}
      [] bot = RESUME_GENERATOR_BOT -> {"resumeData"}
      [] bot = LEGAL_SIMPLIFIER_BOT -> {"legalData"}
      [] bot = NEWS_DIGEST_BOT      -> {"newsPreferences", "deliveryTime"}
      [] bot = CAREER_COUNSELOR_BOT -> {"careerData"}
      [] bot = FINANCE_REMINDER_BOT -> {"financeData"}
      [] bot = ORDER_TRACKING_BOT   -> {"orderData"}
      [] bot = TRANSLATOR_BOT       -> {"textToTranslate"}
      [] OTHER                      -> {}

\* a request that the router delegated to the active flow
DelegatedStep(h) == Routed(h) /\ loaded[h].sessionState # AtMenu

\* C21: a delegated flow step changes only sessionState and the data record
\* of the active flow: every other flow's record is as loaded, and
\* currentBot is as loaded unless the router's reset ran.
C21_DelegatedStepFrame ==
    \A h \in Pipelines :
        DelegatedStep(h) =>
            /\ \A f \in DOMAIN loaded[h] \
                       (OwnRecord(loaded[h].currentBot)
                        \cup {"sessionState", "lastInteraction", "currentBot"}) :
                  userData[h][f] = loaded[h][f]
            /\ \/ userData[h].currentBot = loaded[h].currentBot
               \/ /\ responseMessage[h] \in {Oops, UnexpectedError}
                  /\ userData[h].currentBot = Null
                  /\ userData[h].sessionState = AtMenu

\* a step of the legal simplifier has stored the document text in its own
\* record and the session is still in the legal simplifier
C21_Witness ==
    /\ DelegatedStep(1)
    /\ pc[1] = "done"
    /\ loaded[1].currentBot = LEGAL_SIMPLIFIER_BOT
    /\ userData[1].legalData # loaded[1].legalData
    /\ userData[1].sessionState # loaded[1].sessionState
    /\ db # <<>>
    /\ db[1].currentBot = LEGAL_SIMPLIFIER_BOT


\* the fields of a session but the time stamp the store sets on every write
SessionFields == DOMAIN NewUserData(StripChannel(From)) \ {"lastInteraction"}

\* the value of a field as a document holds it: the same value, a value
\* read from Object.prototype being the empty map it is written as
AsWritten(f, v) ==
    CASE f \in {"currentBot", "examType", "subject"} -> Encoded(v)
      [] f = "currentQuiz" ->
           [v EXCEPT !.questionIds = [i \in 1..Len(@) |-> [data |-> EncodedQuestion(@[i].data)]],
                     !.lastQuestionSent = [i \in 1..Len(@) |-> EncodedQuestion(@[i])]]
      [] OTHER -> v

Completed(h) ==
    /\ Count(log[h], "write") > 0
    /\ Count(log[h], "send") > 0
    /\ Count(log[h], "ack") > 0

\* the request is waiting for a call of the generative service
Hung(h) == pc[h] = "hung"

\* C23: with the store answering, every request in the end persists the
\* session, sends its reply and is acknowledged, unless it waits for a call
\* of the generative service that never returns; such a request stays
\* waiting and never writes, replies or acknowledges.
C23_EveryRequestCompletes ==
    /\ [](pc[1] # "idle" => <>(Completed(1) \/ Hung(1)))
    /\ [](Hung(1) => [](Hung(1) /\ log[1] = <<>>))


\* the request of pipeline h was routed to the revision bot as the answer
\* to the question last sent
AnswerStep(h) ==
    /\ Routed(h)
    /\ loaded[h].currentBot = REVISION_BOT
    /\ loaded[h].sessionState = REVISION_BOT_STATES.AWAITING_QUIZ_ANSWER
    /\ loaded[h].currentQuiz.lastQuestionSent # <<>>

\* C24: a message handled in the awaiting-answer state with a question
\* present advances the question index by exactly one and raises the score
\* by exactly one if and only if the index the answer maps to is the
\* question's correct index; the counters are those of the record the
\* request leaves, or those of the final report when the answer was the
\* last one and the record is cleared.
C24_AnswerAdvancesAndScores ==
    \A h \in Pipelines :
        AnswerStep(h) =>
            LET before == loaded[h].currentQuiz
                after  == userData[h].currentQuiz
                q      == before.lastQuestionSent[1]
                gain   == IF AnswerIndex(incomingMsg[h]) = q.correctAnswerIndex THEN 1 ELSE 0
                reply  == responseMessage[h]
            IN  IF after = EmptyQuiz
                THEN /\ before.currentQIndex + 1 = Len(before.questionIds)
                     /\ \E i \in FinishedReport(reply) :
                           reply[i].score = before.score + gain
                ELSE /\ after.currentQIndex = before.currentQIndex + 1
                     /\ after.score = before.score + gain
                     /\ after.questionIds = before.questionIds

\* 'b', the correct answer to the first question of a quiz of three, has
\* been handled: the index went from 0 to 1 and the score from 0 to 1
C24_Witness ==
    /\ AnswerStep(1)
    /\ pc[1] = "done"
    /\ incomingMsg[1] = <<"b">>
    /\ loaded[1].currentQuiz.lastQuestionSent[1].correctAnswerIndex = 1
    /\ loaded[1].currentQuiz.currentQIndex = 0
    /\ loaded[1].currentQuiz.score = 0
    /\ Len(loaded[1].currentQuiz.questionIds) = 3
    /\ db # <<>>
    /\ db[1].currentQuiz.currentQIndex = 1
    /\ db[1].currentQuiz.score = 1


\* the parts of a reply that ask a quiz question
Prompts(reply) == {i \in 1..Len(reply) : reply[i].k = "Quiz Q"}

AnswerWithoutQuestion(h) ==
    /\ Routed(h)
    /\ loaded[h].currentBot = REVISION_BOT
    /\ loaded[h].sessionState = REVISION_BOT_STATES.AWAITING_QUIZ_ANSWER
    /\ loaded[h].currentQuiz.lastQuestionSent = <<>>

\* C26: a session in the awaiting-answer state whose quiz record has no
\* lastQuestionSent does not throw and does not reach the router's catch:
\* the reply reports the problem, the revision bot goes to its main menu,
\* currentBot stays the revision bot, nothing else of the session changes
\* and the generative service is not called.
C26_MissingQuestionIsReported ==
    \A h \in Pipelines :
        AnswerWithoutQuestion(h) =>
            /\ responseMessage[h] =
                  Say("It seems there was an issue with the last question. Let's try starting a new quiz. Type *quiz* to begin.")
            /\ userData[h] = [loaded[h] EXCEPT
                                !.sessionState = REVISION_BOT_STATES.MAIN_MENU,
                                !.lastInteraction = ServerTimestamp]
            /\ userData[h].currentBot = REVISION_BOT
            /\ ~CallsFacade(incomingMsg[h], loaded[h], RouterGens)
            /\ \A g \in RouterGens : ~RouteMessage(incomingMsg[h], loaded[h], g).threw

\* an answer arrived for a stored session that awaits one without a
\* question sent; the request is over and the persisted session is at the
\* revision main menu
C26_Witness ==
    /\ AnswerWithoutQuestion(1)
    /\ pc[1] = "done"
    /\ incomingMsg[1] = <<"b">>
    /\ db # <<>>
    /\ db[1].currentBot = REVISION_BOT
    /\ db[1].sessionState = REVISION_BOT_STATES.MAIN_MENU


\* the phrases that take the revision bot back to its exam selection
ReturnPhrases == {T_change_exam, T_change_subject}

\* the request of pipeline h is one of these phrases, routed to the
\* revision bot
PhraseStep(h) ==
    /\ DelegatedStep(h)
    /\ loaded[h].currentBot = REVISION_BOT
    /\ incomingMsg[h] \in ReturnPhrases

\* C27: while the revision bot is active, in any of its states, 'change
\* exam' and 'change subject' reset the revision bot only: examType and
\* subject are cleared and the state is the exam selection, currentBot and
\* the other flows' records are as loaded, and the phrase is not taken as
\* a quiz answer, a quiz topic or a flashcard topic.
C27_ReturnPhrasesInEveryState ==
    \A h \in Pipelines :
        PhraseStep(h) =>
            /\ userData[h].sessionState = REVISION_BOT_STATES.AWAITING_EXAM_SELECTION
            /\ userData[h].examType = Null
            /\ userData[h].subject = Null
            /\ userData[h].currentBot = REVISION_BOT
            /\ userData[h].currentQuiz = loaded[h].currentQuiz
            /\ ~CallsFacade(incomingMsg[h], loaded[h], GenGens)


\* the request of pipeline h was routed to the recipe coach or the caption
\* generator in its input state
MediaFlowInput(h) ==
    /\ DelegatedStep(h)
    /\ \/ /\ loaded[h].currentBot = RECIPE_COACH_BOT
          /\ loaded[h].sessionState = RECIPE_COACH_STATES.AWAITING_INGREDIENTS
       \/ /\ loaded[h].currentBot = INSTAGRAM_CAPTION_BOT
          /\ loaded[h].sessionState = INSTAGRAM_CAPTION_STATES.AWAITING_PHOTO_DESCRIPTION

\* C28: in the recipe coach and the caption generator a message received
\* in the input state is answered inside the flow, with the attachment
\* stub, the generated content or the flow's own apology, and the session
\* stays in the same flow and the same state.
C28_MediaFlowsAnswerInFlow ==
    \A h \in Pipelines :
        MediaFlowInput(h) =>
            /\ responseMessage[h] # Oops
            /\ userData[h].currentBot = loaded[h].currentBot
            /\ userData[h].sessionState = loaded[h].sessionState


\* the single input state of the video script, local services and journal
\* flows
InputState ==
    (YOUTUBE_SCRIPT_BOT :> YOUTUBE_SCRIPT_STATES.AWAITING_VIDEO_IDEA) @@
    (LOCAL_SERVICES_BOT :> LOCAL_SERVICES_STATES.AWAITING_CITY_SERVICE) @@
    (MENTAL_HEALTH_BOT  :> MENTAL_HEALTH_STATES.AWAITING_FEELINGS)

\* C29: in the video script, journal and local services flows every input
\* but a global command leaves the session in the same flow and the same
\* single input state, whether the generation succeeds or fails, and
\* changes no data record: the session is as loaded but for the time stamp.
C29_SingleStateFlowsLoop ==
    \A h \in Pipelines :
        (DelegatedStep(h) /\ loaded[h].currentBot \in DOMAIN InputState) =>
            /\ loaded[h].sessionState = InputState[loaded[h].currentBot]
            /\ userData[h] = [loaded[h] EXCEPT !.lastInteraction = ServerTimestamp]
            /\ responseMessage[h] # Oops
            /\ \A g \in RouterGens :
                  LET res == RouteMessage(incomingMsg[h], loaded[h], g)
                  IN  ~res.threw /\ res.u = loaded[h]

\* the journal flow has answered an entry with its apology because the
\* generation failed, and the persisted session is still in the journal
\* flow, awaiting the next entry
C29_Witness ==
    /\ DelegatedStep(1)
    /\ pc[1] = "done"
    /\ loaded[1].currentBot = MENTAL_HEALTH_BOT
    /\ responseMessage[1] = Say("Sorry, I could not process your entry. Please try again.")
    /\ db # <<>>
    /\ db[1].currentBot = MENTAL_HEALTH_BOT
    /\ db[1].sessionState = MENTAL_HEALTH_STATES.AWAITING_FEELINGS


\* the fields the resume generator collects, one per turn
ResumeFields == {"name", "skills", "goals"}

\* C30: whenever a persisted session is in the confirm-generate state of
\* the resume generator, the resume record holds name, skills and goals,
\* so that 'yes' in that state generates from a complete record; and a
\* successful generation leaves the record cleared.
C30_ConfirmHasCompleteRecord ==
    /\ (/\ db # <<>>
        /\ db[1].currentBot = RESUME_GENERATOR_BOT
        /\ db[1].sessionState = RESUME_GENERATOR_STATES.CONFIRM_GENERATE) =>
           ResumeFields \subseteq DOMAIN db[1].resumeData
    /\ \A h \in Pipelines :
          (/\ DelegatedStep(h)
           /\ loaded[h].currentBot = RESUME_GENERATOR_BOT
           /\ loaded[h].sessionState = RESUME_GENERATOR_STATES.CONFIRM_GENERATE
           /\ incomingMsg[h] = T_yes
           /\ ~Apologised(responseMessage[h])) =>
              userData[h].resumeData = EmptyObject

\* C31: whenever a persisted session of the news digest is in the
\* awaiting-delivery-time state, the pending news preference is set
\* (not null), also after a digest setup has been completed.
C31_DeliveryTimeHasPreference ==
    (/\ db # <<>>
     /\ db[1].currentBot = NEWS_DIGEST_BOT
     /\ db[1].sessionState = NEWS_DIGEST_STATES.AWAITING_DELIVERY_TIME) =>
        db[1].newsPreferences # <<>>

\* the fields of a bill the reminder has asked for before each of its
\* states
BillFieldsBefore(st) ==
    CASE st = FINANCE_REMINDER_STATES.AWAITING_DUE_DATE -> {"billType"}
      [] st = FINANCE_REMINDER_STATES.AWAITING_AMOUNT   -> {"billType", "dueDate"}
      [] OTHER                                          -> {}

\* a request the bill reminder's handler answered and the write of its
\* result reached the store
FinanceStep(h, st) ==
    /\ DelegatedStep(h)
    /\ loaded[h].currentBot = FINANCE_REMINDER_BOT
    /\ loaded[h].sessionState = st

\* C32: in the bill reminder, 'add bill' at its menu opens the collection,
\* each of the three inputs that follow stores its field and moves one
\* state on, the third returning to the menu with the finance record
\* empty; a persisted session holds in its record exactly the fields
\* collected before its state; 'tips' or an unrecognized input at the menu
\* leaves the state and the record as they were.
C32_AddBillCollectsAndReturns ==
    LET S == FINANCE_REMINDER_STATES IN
    /\ (db # <<>> /\ db[1].currentBot = FINANCE_REMINDER_BOT) =>
           DOMAIN db[1].financeData = BillFieldsBefore(db[1].sessionState)
    /\ \A h \in Pipelines :
          /\ FinanceStep(h, S.MAIN_MENU) =>
                /\ userData[h].financeData = loaded[h].financeData
                /\ userData[h].sessionState =
                       IF incomingMsg[h] = T_add_bill THEN S.AWAITING_BILL_TYPE
                                                      ELSE S.MAIN_MENU
          /\ FinanceStep(h, S.AWAITING_BILL_TYPE) =>
                /\ userData[h].sessionState = S.AWAITING_DUE_DATE
                /\ userData[h].financeData = ("billType" :> incomingMsg[h])
          /\ FinanceStep(h, S.AWAITING_DUE_DATE) =>
                /\ userData[h].sessionState = S.AWAITING_AMOUNT
                /\ userData[h].financeData =
                       loaded[h].financeData @@ ("dueDate" :> incomingMsg[h])
          /\ FinanceStep(h, S.AWAITING_AMOUNT) =>
                /\ userData[h].sessionState = S.MAIN_MENU
                /\ userData[h].financeData = EmptyObject

\* the amount of a bill has been taken, and the stored session is back at
\* the reminder's menu with nothing in its record
C32_Witness ==
    /\ FinanceStep(1, FINANCE_REMINDER_STATES.AWAITING_AMOUNT)
    /\ pc[1] = "done"
    /\ DOMAIN loaded[1].financeData = {"billType", "dueDate"}
    /\ db # <<>>
    /\ db[1].currentBot = FINANCE_REMINDER_BOT
    /\ db[1].sessionState = FINANCE_REMINDER_STATES.MAIN_MENU
    /\ db[1].financeData = EmptyObject

\* the state the top-menu selection puts a flow in: its entry state
EntryState(bot) ==
    IF bot = TRANSLATOR_BOT
    THEN TRANSLATOR_STATES.AWAITING_TEXT
    ELSE LET code == CHOOSE k \in DOMAIN MAIN_MENU_OPTIONS : MAIN_MENU_OPTIONS[k] = bot
         IN  SelectBot(code, NewUserData(StripChannel(From))).u.sessionState

\* the welcome prompt of each flow's handler
FlowWelcome ==
    (REVISION_BOT :> RevisionWelcome) @@ (RESUME_GENERATOR_BOT :> ResumeWelcome) @@
    (LEGAL_SIMPLIFIER_BOT :> LegalWelcome) @@ (NEWS_DIGEST_BOT :> NewsWelcome) @@
    (RECIPE_COACH_BOT :> RecipeWelcome) @@ (CAREER_COUNSELOR_BOT :> CareerWelcome) @@
    (YOUTUBE_SCRIPT_BOT :> YoutubeWelcome) @@ (LOCAL_SERVICES_BOT :> LocalWelcome) @@
    (FINANCE_REMINDER_BOT :> FinanceWelcome) @@ (INSTAGRAM_CAPTION_BOT :> InstagramWelcome) @@
    (ORDER_TRACKING_BOT :> OrderWelcome) @@ (MENTAL_HEALTH_BOT :> MentalHealthWelcome) @@
    (TRANSLATOR_BOT :> TranslatorWelcome)

\* every value sessionState takes in the code, and one it never takes
AnyState ==
    UNION {FlowStates[b] : b \in DOMAIN FlowStates} \cup {AtMenu, "pdf_awaiting_document"}

\* C33: a flow's handler invoked with a sessionState that is not one of the
\* flow's own states sets the flow's entry state and replies with the
\* flow's welcome prompt; it changes nothing else of the session (the
\* input is stored in no record) and its outcome does not depend on the
\* generative service (it is not called).  Checked for the request in
\* hand as routed, and for the same message and session under every flow
\* and every state foreign to it.
C33_ForeignStateIsJustEntered ==
    \A h \in Pipelines :
        Routed(h) =>
            /\ (/\ DelegatedStep(h)
                /\ loaded[h].currentBot \in DOMAIN FlowStates
                /\ loaded[h].sessionState \notin FlowStates[loaded[h].currentBot]) =>
                   /\ responseMessage[h] = FlowWelcome[loaded[h].currentBot]
                   /\ userData[h].sessionState = EntryState(loaded[h].currentBot)
                   /\ \A f \in DOMAIN loaded[h] \ {"sessionState", "lastInteraction"} :
                          userData[h][f] = loaded[h][f]
            /\ \A b \in DOMAIN FlowStates : \A st \in AnyState \ FlowStates[b] :
                  LET u == [loaded[h] EXCEPT !.currentBot = b, !.sessionState = st]
                  IN  \A g \in GenGens :
                         Delegate(incomingMsg[h], u, g) =
                             Return([u EXCEPT !.sessionState = EntryState(b)],
                                    FlowWelcome[b])

\* the stored session named the revision bot with a state of the resume
\* generator; the request was answered with the revision welcome and the
\* stored session is now in its exam selection
C33_Witness ==
    /\ DelegatedStep(1)
    /\ pc[1] = "done"
    /\ loaded[1].currentBot = REVISION_BOT
    /\ loaded[1].sessionState = RESUME_GENERATOR_STATES.AWAITING_NAME
    /\ incomingMsg[1] = <<"b">>
    /\ responseMessage[1] = RevisionWelcome
    /\ db[1].currentBot = REVISION_BOT
    /\ db[1].sessionState = REVISION_BOT_STATES.AWAITING_EXAM_SELECTION

\* the invariants of one session record: no bot exactly at the top menu, a
\* state of the active bot's own state machine, and the quiz counters in
\* range
RecordInvariant(d) ==
    /\ d.currentBot = Null <=> d.sessionState = AtMenu
    /\ d.currentBot # Null =>
          /\ d.currentBot \in DOMAIN FlowStates
          /\ d.sessionState \in FlowStates[d.currentBot]
    /\ 0 <= d.currentQuiz.score
    /\ d.currentQuiz.score <= d.currentQuiz.currentQIndex
    /\ d.currentQuiz.currentQIndex <= Len(d.currentQuiz.questionIds)

Number(address) == <<address[Len(address)]>>

\* the stored session of the user a request comes from
OwnDoc(h) == IF Number(sender[h]) = Number(From) THEN db ELSE peer

\* the request of pipeline h writes in this step
Writes(h) == Count(log'[h], "write") > Count(log[h], "write")

\* C35: with requests of two users interleaved in any way, the session a
\* request loads is the stored session of its own sender (or the defaults
\* with the sender's number when there is none), a write changes the
\* stored session of the writer's sender and leaves the other user's as it
\* was, and a stored session changes only in a write of its own user: each
\* stored session carries the number of its own user.
C35_UsersAreIsolated ==
    [][/\ \A h \in Pipelines :
            /\ (pc[h] = "get" /\ pc'[h] # "get") =>
                  /\ loaded'[h] = IF OwnDoc(h) = <<>>
                                  THEN NewUserData(Number(sender[h]))
                                  ELSE OwnDoc(h)[1]
                  /\ loaded'[h].whatsappNumber = Number(sender[h])
            /\ Writes(h) =>
                  IF Number(sender[h]) = Number(From)
                  THEN db' = <<Stored(userData[h])>> /\ peer' = peer
                  ELSE peer' = <<Stored(userData[h])>> /\ db' = db
       /\ db' # db =>
            \E h \in Pipelines : Writes(h) /\ Number(sender[h]) = Number(From)
       /\ peer' # peer =>
            \E h \in Pipelines : Writes(h) /\ Number(sender[h]) = Number(Peer)
       /\ db' # <<>> => db'[1].whatsappNumber = Number(From)
       /\ peer' # <<>> => peer'[1].whatsappNumber = Number(Peer)]_vars

\* a request of each user was handled while the other was in progress:
\* the first user's session is in the YouTube script bot, the second
\* user's, whose request came without the channel prefix, in the recipe bot
C35_Witness ==
    /\ pc[1] = "done" /\ pc[2] = "done"
    /\ sender[1] = From /\ sender[2] = PeerBare
    /\ incomingMsg[1] = K7 /\ incomingMsg[2] = K5
    /\ loaded[1].currentBot = Null /\ loaded[2].currentBot = Null
    /\ db # <<>> /\ db[1].currentBot = YOUTUBE_SCRIPT_BOT
    /\ peer # <<>> /\ peer[1].currentBot = RECIPE_COACH_BOT
    /\ peer[1].whatsappNumber = <<"+15550002">>

\* a session in which the translator is the active flow or whose state is
\* one of the translator's
InTranslator(d) ==
    \/ d.currentBot = TRANSLATOR_BOT
    \/ d.sessionState \in Values(TRANSLATOR_STATES)

\* C36: from a fresh session no message makes the translator the active
\* flow: no code of the menu table maps to it, and neither the stored
\* session nor the session of a request in progress ever names the
\* translator or one of its states translator_awaiting_text and
\* translator_awaiting_language.
C36_TranslatorIsUnreachable ==
    /\ TRANSLATOR_BOT \notin Values(MAIN_MENU_OPTIONS)
    /\ db # <<>> => ~InTranslator(db[1])
    /\ \A h \in Pipelines : ~InTranslator(loaded[h]) /\ ~InTranslator(userData[h])

\* the code the translator had in the menu was sent at the top menu and
\* answered as an invalid selection; the stored session has no active bot
C36_Witness ==
    /\ MenuMiss(1)
    /\ pc[1] = "done"
    /\ incomingMsg[1] = K13
    /\ responseMessage[1] = InvalidSelection
    /\ db # <<>>
    /\ db[1].currentBot = Null
    /\ db[1].sessionState = AtMenu

\* C37: in the awaiting-answer state an answer of more than one character
\* is scored by its first character alone: it is counted correct exactly
\* when the offset of that character from 'a' is the question's correct
\* index, and the session it leaves is the one its first character sent
\* alone would leave.
C37_LongAnswerScoredByFirstChar ==
    \A h \in Pipelines :
        (/\ AnswerStep(h)
         /\ Len(incomingMsg[h]) > 1
         /\ WellFormed(loaded[h].currentQuiz.lastQuestionSent[1])) =>
            LET before  == loaded[h].currentQuiz
                q       == before.lastQuestionSent[1]
                first   == <<incomingMsg[h][1]>>
                correct == /\ first \in DOMAIN OptionLetters
                           /\ OptionLetters[first] = q.correctAnswerIndex
                after   == userData[h].currentQuiz
                reply   == responseMessage[h]
            IN  /\ reply[1] = (IF correct THEN Say("Correct!") ELSE Say("Incorrect."))[1]
                /\ IF after = EmptyQuiz
                   THEN \E i \in FinishedReport(reply) :
                           reply[i].score = before.score + (IF correct THEN 1 ELSE 0)
                   ELSE after.score = before.score + (IF correct THEN 1 ELSE 0)
                /\ \A g \in GenGens :
                      TryRoute(incomingMsg[h], loaded[h], g).u =
                          TryRoute(first, loaded[h], g).u

\* 'both' was the answer to a question whose correct option is 'b': it was
\* counted correct and the stored score went from 0 to 1
C37_Witness ==
    /\ AnswerStep(1)
    /\ pc[1] = "done"
    /\ incomingMsg[1] = <<"b","o","t","h">>
    /\ loaded[1].currentQuiz.lastQuestionSent[1].correctAnswerIndex = 1
    /\ loaded[1].currentQuiz.score = 0
    /\ responseMessage[1][1] = Say("Correct!")[1]
    /\ db # <<>>
    /\ db[1].currentQuiz.score = 1

\* the states of the revision bot that come after the subject selection
AfterSubject ==
    {REVISION_BOT_STATES.MAIN_MENU, REVISION_BOT_STATES.AWAITING_AI_QUIZ_TOPIC,
     REVISION_BOT_STATES.AWAITING_QUIZ_ANSWER, REVISION_BOT_STATES.AWAITING_FLASHCARD_TOPIC}

\* C38: in every persisted session with the revision bot active, examType
\* is one of the configured exams in the subject-selection state, and in
\* the MENU, quiz-topic, quiz-answer and flashcard-topic states examType is
\* a configured exam and subject one of that exam's configured subjects; a
\* choice that is no code of the exam or subject list is answered with the
\* list again and leaves the session as loaded.
C38_ExamAndSubjectAreConfigured ==
    /\ (db # <<>> /\ db[1].currentBot = REVISION_BOT) =>
          /\ db[1].sessionState = REVISION_BOT_STATES.AWAITING_SUBJECT_SELECTION =>
                db[1].examType \in Values(EXAMS)
          /\ db[1].sessionState \in AfterSubject =>
                /\ db[1].examType \in Values(EXAMS)
                /\ db[1].subject \in Values(SUBJECTS[db[1].examType])
    /\ \A h \in Pipelines :
          (/\ DelegatedStep(h)
           /\ loaded[h].currentBot = REVISION_BOT) =>
              /\ (/\ loaded[h].sessionState = REVISION_BOT_STATES.AWAITING_EXAM_SELECTION
                  /\ incomingMsg[h] \notin DOMAIN EXAMS) =>
                     /\ responseMessage[h] =
                            Say("Please choose a number from the list:") \o Options(EXAMS)
                     /\ \A f \in DOMAIN loaded[h] \ {"lastInteraction"} :
                            userData[h][f] = loaded[h][f]
              /\ (/\ loaded[h].sessionState = REVISION_BOT_STATES.AWAITING_SUBJECT_SELECTION
                  /\ loaded[h].examType \in Values(EXAMS)
                  /\ incomingMsg[h] \notin DOMAIN SUBJECTS[loaded[h].examType]) =>
                     /\ responseMessage[h][1].k = "Please select a valid subject for"
                     /\ \A f \in DOMAIN loaded[h] \ {"lastInteraction"} :
                            userData[h][f] = loaded[h][f]

\* C39: whenever a persisted session is in the second collection state of
\* the career counselor or of the order tracker, the field collected in
\* the first state (interests, awb) is present in the flow's record; and a
\* message handled in the second state returns the flow to its first
\* state.
C39_SecondStateHasFirstField ==
    /\ (/\ db # <<>>
        /\ db[1].currentBot = CAREER_COUNSELOR_BOT
        /\ db[1].sessionState = CAREER_COUNSELOR_STATES.AWAITING_STREAM_GPA) =>
           "interests" \in DOMAIN db[1].careerData
    /\ (/\ db # <<>>
        /\ db[1].currentBot = ORDER_TRACKING_BOT
        /\ db[1].sessionState = ORDER_TRACKING_STATES.AWAITING_COMPLAINT_DETAILS) =>
           "awb" \in DOMAIN db[1].orderData
    /\ \A h \in Pipelines :
          /\ (/\ DelegatedStep(h)
              /\ loaded[h].currentBot = CAREER_COUNSELOR_BOT
              /\ loaded[h].sessionState = CAREER_COUNSELOR_STATES.AWAITING_STREAM_GPA) =>
                 /\ userData[h].currentBot = CAREER_COUNSELOR_BOT
                 /\ userData[h].sessionState = CAREER_COUNSELOR_STATES.AWAITING_INTERESTS
          /\ (/\ DelegatedStep(h)
              /\ loaded[h].currentBot = ORDER_TRACKING_BOT
              /\ loaded[h].sessionState = ORDER_TRACKING_STATES.AWAITING_COMPLAINT_DETAILS) =>
                 /\ userData[h].currentBot = ORDER_TRACKING_BOT
                 /\ userData[h].sessionState = ORDER_TRACKING_STATES.AWAITING_AWB

\* the complaint about a stored AWB has been taken and the stored session
\* awaits an AWB again
C39_Witness ==
    /\ DelegatedStep(1)
    /\ pc[1] = "done"
    /\ loaded[1].currentBot = ORDER_TRACKING_BOT
    /\ loaded[1].sessionState = ORDER_TRACKING_STATES.AWAITING_COMPLAINT_DETAILS
    /\ "awb" \in DOMAIN loaded[1].orderData
    /\ responseMessage[1][1].awb = loaded[1].orderData.awb
    /\ db # <<>>
    /\ db[1].currentBot = ORDER_TRACKING_BOT
    /\ db[1].sessionState = ORDER_TRACKING_STATES.AWAITING_AWB

====
